---- MODULE Spec2Model ----
(***************************************************************************)
(* Source terms of a CDO equation (Code_Saturne):                          *)
(*   - setting of the source terms of an equation (cs_equation_param.c),   *)
(*   - classification and mask building (cs_source_term_init),             *)
(*   - cellwise evaluation (cs_source_term_compute_cellwise and the        *)
(*     evaluators of cs_source_term.c).                                    *)
(*                                                                         *)
(* Conventions.                                                            *)
(*   Flags (cs_flag_t) are sets of bit names: f & g != 0 is                *)
(*   f \cap g # {}, f |= g is f \cup g.                                    *)
(*   C arrays are functions on 0..n-1.                                     *)
(*   Reals are exact: lengths are integers (the mesh is made of cubes of   *)
(*   side CellSide), the fractions wvc are stored in units of 1/WvcDen and *)
(*   the values of the source buffer in units of 1/Unit, so that every     *)
(*   coefficient of the quadratures (1/6, 0.375, 0.125, 0.25, 0.05, 0.2,   *)
(*   0.45, 0.8) is an integer operation.                                   *)
(***************************************************************************)
EXTENDS Integers, Sequences, FiniteSets, TLC

(***************************************************************************)
(* Bounds of the exploration                                               *)
(***************************************************************************)
\* largest number of source terms added to the equation
MaxST == 2
\* number of cells of the mesh
NCells == 2

(***************************************************************************)
(* Program constants                                                       *)
(***************************************************************************)
CS_N_MAX_SOURCE_TERMS == 8
\* number of bits of a cs_mask_t word
MaskBits == 8
\* denominator of the values of the buffer: 0.05 = 1/Unit
Unit == 20
\* denominator of the fractions wvc
WvcDen == 8
\* side of a (cubic) cell
CellSide == 24

\* null pointers: to a definition, to an evaluator, to an array of masks
NULL_XDEF == [null |-> TRUE]
NULL_FUNC == "NULL"
NULL_MASK == << >>

CellIds == 0 .. (NCells - 1)

\* cs_space_scheme_t
SpaceSchemes == {"CDOVB", "CDOVCB", "CDOFB", "HHO", "CDOEB"}

\* cs_quadrature_type_t
QuadratureTypes == {"NONE", "BARY", "BARY_SUBDIV", "HIGHER", "HIGHEST"}

\* bits of cs_flag_t used in the metadata of a definition
CS_FLAG_PRIMAL == {"PRIMAL"}
CS_FLAG_DUAL == {"DUAL"}
CS_FLAG_VERTEX == {"VERTEX"}
CS_FLAG_CELL == {"CELL"}
CS_FLAG_FULL_LOC == {"FULL_LOC"}
CS_FLAG_SCALAR == {"SCALAR"}
CS_FLAG_VECTOR == {"VECTOR"}
CS_FLAG_TENSOR == {"TENSOR"}
CS_FLAG_BORDER == {"BORDER"}
CS_FLAG_BY_CELL == {"BY_CELL"}

\* bits of the flag of the algebraic system
CS_FLAG_SYS_SOURCETERM == {"SYS_SOURCETERM"}
CS_FLAG_SYS_HLOC_CONF == {"SYS_HLOC_CONF"}
CS_FLAG_SYS_SOURCES_HLOC == {"SYS_SOURCES_HLOC"}

\* bits of the flag of a cell mesh (what is built in a cs_cell_mesh_t)
CS_CDO_LOCAL_PV == {"PV"}
CS_CDO_LOCAL_PVQ == {"PVQ"}
CS_CDO_LOCAL_PEQ == {"PEQ"}
CS_CDO_LOCAL_PFQ == {"PFQ"}
CS_CDO_LOCAL_DEQ == {"DEQ"}
CS_CDO_LOCAL_EV == {"EV"}
CS_CDO_LOCAL_FE == {"FE"}
CS_CDO_LOCAL_FEQ == {"FEQ"}
CS_CDO_LOCAL_HFQ == {"HFQ"}

\* (flag & reference) == reference
cs_test_flag(flag, reference) == reference \subseteq flag

(***************************************************************************)
(* Volume zones: zone 0 is the whole mesh, zone 1 the first cell only.     *)
(* cell_ids is the list of the cells of the zone.                          *)
(***************************************************************************)
ZoneIds == {0, 1}

cs_volume_zone_by_id(z_id) ==
  IF z_id = 0
    THEN [n_cells |-> NCells, cell_ids |-> [i \in 0 .. (NCells - 1) |-> i]]
    ELSE [n_cells |-> 1, cell_ids |-> [i \in {0} |-> 0]]

ZoneCells(z_id) ==
  LET z == cs_volume_zone_by_id(z_id)
  IN  {z.cell_ids[i] : i \in 0 .. (z.n_cells - 1)}

(***************************************************************************)
(* Small helpers on integers and on functions over 0..n-1                  *)
(***************************************************************************)
Abs(x) == IF x < 0 THEN -x ELSE x

RECURSIVE Pow2(_)
Pow2(n) == IF n = 0 THEN 1 ELSE 2 * Pow2(n - 1)

RECURSIVE SumTo(_, _)
\* f[0] + ... + f[n-1]
SumTo(f, n) == IF n = 0 THEN 0 ELSE SumTo(f, n - 1) + f[n - 1]

\* points are triples <<x, y, z>>
PtAdd(p, q) == <<p[1] + q[1], p[2] + q[2], p[3] + q[3]>>
PtScale(a, p) == <<a * p[1], a * p[2], a * p[3]>>
PtDiv(p, d) == <<p[1] \div d, p[2] \div d, p[3] \div d>>
PtSub(p, q) == <<p[1] - q[1], p[2] - q[2], p[3] - q[3]>>

(***************************************************************************)
(* The cell mesh of cell c_id (cs_cell_mesh_t): a cube of side CellSide    *)
(* whose lowest corner is (c_id * CellSide, 0, 0).  Vertex v has the bits  *)
(* of v as coordinates; 12 edges, 6 faces of 4 edges each.                 *)
(***************************************************************************)
CubeE2V ==
  [e \in 0 .. 11 |->
     CASE e = 0 -> <<0, 1>> [] e = 1 -> <<2, 3>> [] e = 2 -> <<4, 5>>
       [] e = 3 -> <<6, 7>> [] e = 4 -> <<0, 2>> [] e = 5 -> <<1, 3>>
       [] e = 6 -> <<4, 6>> [] e = 7 -> <<5, 7>> [] e = 8 -> <<0, 4>>
       [] e = 9 -> <<1, 5>> [] e = 10 -> <<2, 6>> [] e = 11 -> <<3, 7>>]

CubeF2E ==
  [f \in 0 .. 5 |->
     CASE f = 0 -> <<4, 6, 8, 10>>  \* x = 0
       [] f = 1 -> <<5, 7, 9, 11>>  \* x = side
       [] f = 2 -> <<0, 2, 8, 9>>   \* y = 0
       [] f = 3 -> <<1, 3, 10, 11>> \* y = side
       [] f = 4 -> <<0, 1, 4, 5>>   \* z = 0
       [] f = 5 -> <<2, 3, 6, 7>>]  \* z = side

CubeVertex(c_id, v) ==
  <<c_id * CellSide + CellSide * (v % 2),
    CellSide * ((v \div 2) % 2),
    CellSide * (v \div 4)>>

CubeFaceVertices(f) ==
  {CubeE2V[CubeF2E[f][k]][j] : k \in 1 .. 4, j \in 1 .. 2}

RECURSIVE PtSum(_, _)
PtSum(c_id, vs) ==
  IF vs = {} THEN <<0, 0, 0>>
  ELSE LET v == CHOOSE w \in vs : TRUE
       IN  PtAdd(CubeVertex(c_id, v), PtSum(c_id, vs \ {v}))

\* the geometry of each cell of the mesh, as cs_cell_mesh_build stores it
CellGeometry ==
  [c_id \in CellIds |->
  [c_id |-> c_id,
   flag |-> {},
   xc |-> PtDiv(PtSum(c_id, 0 .. 7), 8),
   vol_c |-> CellSide * CellSide * CellSide,
   n_vc |-> 8,
   xv |-> [v \in 0 .. 7 |-> CubeVertex(c_id, v)],
   wvc |-> [v \in 0 .. 7 |-> 1],
   n_ec |-> 12,
   edge |-> [e \in 0 .. 11 |->
               [center |-> PtDiv(PtAdd(CubeVertex(c_id, CubeE2V[e][1]),
                                       CubeVertex(c_id, CubeE2V[e][2])), 2)]],
   e2v_ids |-> [i \in 0 .. 23 |-> CubeE2V[i \div 2][(i % 2) + 1]],
   n_fc |-> 6,
   face |-> [f \in 0 .. 5 |->
               [center |-> PtDiv(PtSum(c_id, CubeFaceVertices(f)), 4)]],
   hfc |-> [f \in 0 .. 5 |-> CellSide \div 2],
   f2e_idx |-> [f \in 0 .. 6 |-> 4 * f],
   f2e_ids |-> [i \in 0 .. 23 |-> CubeF2E[i \div 4][(i % 4) + 1]],
   tef |-> [i \in 0 .. 23 |-> (CellSide * CellSide) \div 4]]]

\* the cell mesh of the cell c_id built with the given flag
cs_cell_mesh(c_id, flag) == [CellGeometry[c_id] EXCEPT !.flag = flag]

\* entries of the buffer csys->source: the largest number of DoFs of a cell
\* (the vertices and the cell)
BufIds == 0 .. cs_cell_mesh(0, {}).n_vc

\* a buffer of zeros
ZeroBuf == [i \in BufIds |-> 0]

\* the face which the entry i of f2e_ids belongs to
FaceOf(cm, i) ==
  CHOOSE f \in 0 .. (cm.n_fc - 1) : cm.f2e_idx[f] <= i /\ i < cm.f2e_idx[f + 1]

\* number of entries of f2e_ids
NF2E(cm) == cm.f2e_idx[cm.n_fc]

RECURSIVE PtSumTo(_, _)
\* p[0] + ... + p[n-1] for points
PtSumTo(p, n) ==
  IF n = 0 THEN <<0, 0, 0>> ELSE PtAdd(PtSumTo(p, n - 1), p[n - 1])

(***************************************************************************)
(* The cell builder (cs_cell_builder_t): the discrete Hodge operator hdg   *)
(* computed by the caller before the evaluation of the source terms, a     *)
(* square matrix of size n_ent (vertices, or vertices and cell).           *)
(***************************************************************************)
HodgeMatrix ==
  [n_ent \in 1 .. (CellGeometry[0].n_vc + 1) |->
     [n_ent |-> n_ent,
      val |-> [i \in 0 .. (n_ent - 1) |->
                 [j \in 0 .. (n_ent - 1) |->
                    IF i = j THEN 2 * CellSide ELSE CellSide]]]]

cs_cell_builder(cm, n_ent) == [hdg |-> HodgeMatrix[n_ent]]

\* matrix-vector product of a local dense matrix
cs_locmat_matvec(loc, vec) ==
  [i \in 0 .. (loc.n_ent - 1) |->
     SumTo([j \in 0 .. (loc.n_ent - 1) |-> loc.val[i][j] * vec[j]], loc.n_ent)]

(***************************************************************************)
(* Analytic functions (cs_analytic_func_t): polynomials of the             *)
(* coordinates, given by their coefficients.                               *)
(***************************************************************************)
\* hi is the sequence of the monomials c * x^i * y^j * z^k of degree 2 and more
AnalyticFuncs == {[a0 |-> 1, ax |-> 1, ay |-> 0, az |-> 2, hi |-> << >>]}

\* a constant, another affine function, a quadratic and a cubic polynomial
TestPolynomials ==
  {[a0 |-> 3, ax |-> 0, ay |-> 0, az |-> 0, hi |-> << >>],
   [a0 |-> 0, ax |-> 2, ay |-> 1, az |-> 0, hi |-> << >>],
   [a0 |-> 1, ax |-> 0, ay |-> 1, az |-> 0,
    hi |-> <<[c |-> 1, i |-> 2, j |-> 0, k |-> 0],
             [c |-> 2, i |-> 0, j |-> 1, k |-> 1]>>],
   [a0 |-> 0, ax |-> 1, ay |-> 0, az |-> 0,
    hi |-> <<[c |-> 1, i |-> 0, j |-> 3, k |-> 0],
             [c |-> 1, i |-> 0, j |-> 2, k |-> 1],
             [c |-> 1, i |-> 1, j |-> 0, k |-> 1]>>]}

Polynomials == AnalyticFuncs \cup TestPolynomials

RECURSIVE Power(_, _)
Power(x, n) == IF n = 0 THEN 1 ELSE x * Power(x, n - 1)

\* anai->func at the point xyz
func(anai, xyz) ==
  anai.a0 + anai.ax * xyz[1] + anai.ay * xyz[2] + anai.az * xyz[3]
    + SumTo([m \in 0 .. (Len(anai.hi) - 1) |->
               anai.hi[m + 1].c * Power(xyz[1], anai.hi[m + 1].i)
                 * Power(xyz[2], anai.hi[m + 1].j)
                 * Power(xyz[3], anai.hi[m + 1].k)], Len(anai.hi))

\* values given to cs_equation_add_source_term_by_val
Values == {2}

(***************************************************************************)
(* Evaluators (cs_source_term_cellwise_t).  Each one takes the definition, *)
(* the cell mesh, the cell builder and the buffer of values, and gives the *)
(* buffer it leaves.  A statement values[v] += x is values[v] + Unit * x.  *)
(***************************************************************************)

\* scalar potential at primal vertices, by value
cs_source_term_pvsp_by_value(source, cm, cb, values) ==
  IF source = NULL_XDEF THEN values
  ELSE
    LET pot_value == source.input.val
        eval == [v \in 0 .. (cm.n_vc - 1) |-> pot_value]
        hdg_eval == cs_locmat_matvec(cb.hdg, eval)
    IN  [v \in DOMAIN values |->
           IF v < cm.n_vc THEN values[v] + Unit * hdg_eval[v] ELSE values[v]]

\* scalar potential at primal vertices, by analytic function
cs_source_term_pvsp_by_analytic(source, cm, cb, values) ==
  IF source = NULL_XDEF THEN values
  ELSE
    LET anai == source.input
        eval == [v \in 0 .. (cm.n_vc - 1) |-> func(anai, cm.xv[v])]
        hdg_eval == cs_locmat_matvec(cb.hdg, eval)
    IN  [v \in DOMAIN values |->
           IF v < cm.n_vc THEN values[v] + Unit * hdg_eval[v] ELSE values[v]]

\* scalar density at dual cells, by value, without the weights of the
\* vertices: values[v] += density_value * cm->vol_c
cs_source_term_dcsd_by_value_unweighted(source, cm, cb, values) ==
  IF source = NULL_XDEF THEN values
  ELSE
    LET density_value == source.input.val
    IN  [v \in DOMAIN values |->
           IF v < cm.n_vc
             THEN values[v] + Unit * density_value * cm.vol_c
             ELSE values[v]]

\* scalar density at dual cells, by value, where a NULL definition resets
\* the values: if (source == NULL) { values[v] = 0 for each v; return; }
cs_source_term_dcsd_by_value_null_resets(source, cm, cb, values) ==
  IF source = NULL_XDEF
    THEN [v \in DOMAIN values |-> IF v < cm.n_vc THEN 0 ELSE values[v]]
  ELSE
    LET density_value == source.input.val
    IN  [v \in DOMAIN values |->
           IF v < cm.n_vc
             THEN values[v]
                    + (Unit * density_value * cm.wvc[v] * cm.vol_c) \div WvcDen
             ELSE values[v]]

\* scalar density at dual cells, by value
cs_source_term_dcsd_by_value(source, cm, cb, values) ==
  IF source = NULL_XDEF THEN values
  ELSE
    LET density_value == source.input.val
    IN  [v \in DOMAIN values |->
           IF v < cm.n_vc
             THEN values[v]
                    + (Unit * density_value * cm.wvc[v] * cm.vol_c) \div WvcDen
             ELSE values[v]]

\* scalar potential at primal vertices and cells, by value
cs_source_term_vcsp_by_value(source, cm, cb, values) ==
  IF source = NULL_XDEF THEN values
  ELSE
    LET pot_value == source.input.val
        eval == [v \in 0 .. cm.n_vc |-> pot_value]
        hdg_eval == cs_locmat_matvec(cb.hdg, eval)
    IN  [v \in DOMAIN values |->
           IF v < cm.n_vc + 1 THEN values[v] + Unit * hdg_eval[v] ELSE values[v]]

\* scalar potential at primal vertices and cells, by analytic function
cs_source_term_vcsp_by_analytic(source, cm, cb, values) ==
  IF source = NULL_XDEF THEN values
  ELSE
    LET anai == source.input
        eval == [v \in 0 .. cm.n_vc |->
                   IF v < cm.n_vc THEN func(anai, cm.xv[v]) ELSE func(anai, cm.xc)]
        hdg_eval == cs_locmat_matvec(cb.hdg, eval)
    IN  [v \in DOMAIN values |->
           IF v < cm.n_vc + 1 THEN values[v] + Unit * hdg_eval[v] ELSE values[v]]

\* scalar density on primal cells, by value, stored in the first entry of the
\* buffer: values[0] = input[0] * cm->vol_c
cs_source_term_fbsd_by_value_first_entry(source, cm, cb, values) ==
  IF source = NULL_XDEF THEN values
  ELSE [values EXCEPT ![0] = Unit * source.input.val * cm.vol_c]

\* scalar density on primal cells, by value (face-based schemes)
cs_source_term_fbsd_by_value(source, cm, cb, values) ==
  IF source = NULL_XDEF THEN values
  ELSE [values EXCEPT ![cm.n_fc] = Unit * source.input.val * cm.vol_c]

\* scalar density on primal cells, by analytic function, barycentric
\* quadrature (face-based schemes)
cs_source_term_fbsd_bary_by_analytic(source, cm, cb, values) ==
  IF source = NULL_XDEF THEN values
  ELSE
    LET anai == source.input
        eval_xc == func(anai, cm.xc)
    IN  [values EXCEPT ![cm.n_fc] = Unit * cm.vol_c * eval_xc]

(***************************************************************************)
(* Decomposition of a cell in sub-tetrahedra (vertex, edge center, face    *)
(* center, cell center), one pair of them for each entry i of f2e_ids.     *)
(***************************************************************************)
\* the first extremity in place of the midpoint
Midpoint_first_extremity(p, q) == p

Midpoint(p, q) == PtDiv(PtAdd(p, q), 2)

\* first (k = 0) or second (k = 1) vertex of the edge of entry i
EntryVertex(cm, i, k) == cm.e2v_ids[2 * cm.f2e_ids[i] + k]

\* cs_math_onesix * tef[i] * hfc[f]: volume of each sub-tetrahedron of the
\* entry i of the face f
SubTetVol(cm, f, i) == (cm.tef[i] * cm.hfc[f]) \div 6

\* xfc + 0.25*xva + 0.25*xvb with xfc = 0.25*(xf + xc): the same weight for
\* the two vertices of the edge
SubTetBary_equal_weights(cm, f, va, vb) ==
  PtDiv(PtAdd(PtAdd(cm.face[f].center, cm.xc), PtAdd(cm.xv[va], cm.xv[vb])), 4)

\* xfc + 0.375*xva + 0.125*xvb with xfc = 0.25*(xf + xc): barycenter of the
\* sub-tetrahedron (va, edge center, face center, cell center)
SubTetBary(cm, f, va, vb) ==
  PtDiv(PtAdd(PtScale(2, PtAdd(cm.face[f].center, cm.xc)),
              PtAdd(PtScale(3, cm.xv[va]), cm.xv[vb])), 8)

\* the other vertex of the edge of entry i
OtherVertex(cm, i, v) ==
  IF EntryVertex(cm, i, 0) = v THEN EntryVertex(cm, i, 1) ELSE EntryVertex(cm, i, 0)

\* the entries of f2e_ids whose edge has v as a vertex
HasVertex(cm, i, v) == EntryVertex(cm, i, 0) = v \/ EntryVertex(cm, i, 1) = v

\* The quadratures on the sub-tetrahedra depend on the analytic function and
\* on the geometry of the cell only: what each of them computes for the
\* vertices of a cell (xgv-based evaluation, or the quantity added to
\* values[v]) is a definition of its own, tabulated once for the cells and the
\* analytic functions of the model.

\* eval_xgv[v] * vol_vc[v] of cs_source_term_dcsd_bary_by_analytic
dcsd_bary_eval(anai, cm) ==
  LET n == NF2E(cm)
      face_of == [i \in 0 .. (n - 1) |-> FaceOf(cm, i)]
      tet_vol == [i \in 0 .. (n - 1) |-> SubTetVol(cm, face_of[i], i)]
      xgv_sum(v) ==
        PtSumTo([i \in 0 .. (n - 1) |->
                   IF HasVertex(cm, i, v)
                     THEN PtScale(tet_vol[i],
                                  SubTetBary(cm, face_of[i], v,
                                             OtherVertex(cm, i, v)))
                     ELSE <<0, 0, 0>>], n)
      vol_vc(v) == (cm.vol_c * cm.wvc[v]) \div WvcDen
      xgv(v) == PtDiv(xgv_sum(v), vol_vc(v))
      eval_xgv(v) == func(anai, xgv(v))
  IN  [v \in 0 .. (cm.n_vc - 1) |->
         ((cm.vol_c * cm.wvc[v]) \div WvcDen) * eval_xgv(v)]

BaryEval ==
  [c_id \in CellIds |->
     [anai \in Polynomials |-> dcsd_bary_eval(anai, CellGeometry[c_id])]]

\* scalar density at dual cells, by analytic function, barycentric quadrature
\* (one evaluation for each vertex, at the barycenter of its portion)
cs_source_term_dcsd_bary_by_analytic(source, cm, cb, values) ==
  IF source = NULL_XDEF THEN values
  ELSE
    LET eval == BaryEval[cm.c_id][source.input]
    IN  [v \in DOMAIN values |->
           IF v < cm.n_vc THEN Unit * eval[v] ELSE values[v]]

\* what cs_source_term_dcsd_q1o1_by_analytic adds to values[v]
dcsd_q1o1_add(anai, cm) ==
  LET n == NF2E(cm)
      face_of == [i \in 0 .. (n - 1) |-> FaceOf(cm, i)]
      tet_vol == [i \in 0 .. (n - 1) |-> SubTetVol(cm, face_of[i], i)]
      add(v) ==
        SumTo([i \in 0 .. (n - 1) |->
                 IF HasVertex(cm, i, v)
                   THEN tet_vol[i]
                          * func(anai, SubTetBary(cm, face_of[i], v,
                                                  OtherVertex(cm, i, v)))
                   ELSE 0], n)
  IN  [v \in 0 .. (cm.n_vc - 1) |-> add(v)]

Q1o1Add ==
  [c_id \in CellIds |->
     [anai \in Polynomials |-> dcsd_q1o1_add(anai, CellGeometry[c_id])]]

\* scalar density at dual cells, by analytic function, barycentric quadrature
\* on each sub-tetrahedron
cs_source_term_dcsd_q1o1_by_analytic(source, cm, cb, values) ==
  IF source = NULL_XDEF THEN values
  ELSE
    LET add == Q1o1Add[cm.c_id][source.input]
    IN  [v \in DOMAIN values |->
           IF v < cm.n_vc THEN values[v] + Unit * add[v] ELSE values[v]]

\* the array contrib of cs_source_term_dcsd_q10o2_by_analytic: -1/20 on the
\* extremities and 1/5 on the midpoints of each sub-tetrahedron
dcsd_q10o2_contrib(anai, cm) ==
  LET n == NF2E(cm)
      face_of == [i \in 0 .. (n - 1) |-> FaceOf(cm, i)]
      tet_vol == [i \in 0 .. (n - 1) |-> SubTetVol(cm, face_of[i], i)]
      eval_c == func(anai, cm.xc)
      eval_v(v) == func(anai, cm.xv[v])
      eval_vc(v) == func(anai, Midpoint(cm.xc, cm.xv[v]))
      eval_e == [e \in 0 .. (cm.n_ec - 1) |-> func(anai, cm.edge[e].center)]
      eval_ec ==
        [e \in 0 .. (cm.n_ec - 1) |->
           func(anai, Midpoint(cm.xc, cm.edge[e].center))]
      eval_ve(e, v) == func(anai, Midpoint(cm.xv[v], cm.edge[e].center))
      eval_ef(e, f) ==
        func(anai, Midpoint(cm.edge[e].center, cm.face[f].center))
      \* 1) the whole portion of dual cell
      init(v) ==
        ((cm.wvc[v] * cm.vol_c) \div WvcDen)
          * (4 * eval_vc(v) - (eval_c + eval_v(v)))
      \* 2) and 3) the edges of each face
      common_ef_contrib ==
        [i \in 0 .. (n - 1) |->
           4 * (eval_ef(cm.f2e_ids[i], face_of[i]) + eval_ec[cm.f2e_ids[i]])
             - eval_e[cm.f2e_ids[i]]]
      edges(v) ==
        SumTo([i \in 0 .. (n - 1) |->
                 IF HasVertex(cm, i, v)
                   THEN tet_vol[i]
                          * (common_ef_contrib[i]
                               + 4 * eval_ve(cm.f2e_ids[i], v))
                   ELSE 0], n)
      \* the faces
      pvf_vol ==
        [f \in 0 .. (cm.n_fc - 1) |->
           [v \in 0 .. (cm.n_vc - 1) |->
              SumTo([k \in 0 .. (cm.f2e_idx[f + 1] - cm.f2e_idx[f] - 1) |->
                       IF HasVertex(cm, cm.f2e_idx[f] + k, v)
                         THEN tet_vol[cm.f2e_idx[f] + k] ELSE 0],
                    cm.f2e_idx[f + 1] - cm.f2e_idx[f])]]
      val_vfc ==
        [f \in 0 .. (cm.n_fc - 1) |->
           4 * func(anai, Midpoint(cm.face[f].center, cm.xc))
             - func(anai, cm.face[f].center)]
      faces(v) ==
        SumTo([f \in 0 .. (cm.n_fc - 1) |->
                 IF pvf_vol[f][v] > 0
                   THEN pvf_vol[f][v]
                          * (val_vfc[f]
                               + 4 * func(anai, Midpoint(cm.face[f].center,
                                                         cm.xv[v])))
                   ELSE 0], cm.n_fc)
  IN  [v \in 0 .. (cm.n_vc - 1) |-> init(v) + edges(v) + faces(v)]

Q10o2Contrib ==
  [c_id \in CellIds |->
     [anai \in Polynomials |-> dcsd_q10o2_contrib(anai, CellGeometry[c_id])]]

\* scalar density at dual cells, by analytic function, ten-point quadrature
cs_source_term_dcsd_q10o2_by_analytic(source, cm, cb, values) ==
  IF source = NULL_XDEF THEN values
  ELSE
    LET contrib == Q10o2Contrib[cm.c_id][source.input]
    IN  [v \in DOMAIN values |->
           IF v < cm.n_vc THEN values[v] + contrib[v] ELSE values[v]]

\* volume of the tetrahedron (xv, xe, xf, xc): |det| / 6
cs_math_voltet(xv, xe, xf, xc) ==
  LET u == PtSub(xe, xv)
      v == PtSub(xf, xv)
      w == PtSub(xc, xv)
      det == u[1] * (v[2] * w[3] - v[3] * w[2])
               - u[2] * (v[1] * w[3] - v[3] * w[1])
               + u[3] * (v[1] * w[2] - v[2] * w[1])
  IN  Abs(det) \div 6

\* five Gauss points of the tetrahedron (xv, xe, xf, xc) of volume vol and
\* their weights, 0.45*vol four times and -0.8*vol at the barycenter
cs_quadrature_tet_5pts(xv, xe, xf, xc, vol) ==
  LET s == PtAdd(PtAdd(xv, xe), PtAdd(xf, xc))
      g(x) == PtAdd(PtDiv(PtSub(s, x), 6), PtDiv(x, 2))
  IN  [gauss_pts |-> [p \in 0 .. 4 |->
                        CASE p = 0 -> g(xc) [] p = 1 -> g(xe)
                          [] p = 2 -> g(xf) [] p = 3 -> g(xv)
                          [] p = 4 -> PtDiv(s, 4)],
       weights |-> [p \in 0 .. 4 |-> IF p = 4 THEN -16 * vol ELSE 9 * vol]]

\* what cs_source_term_dcsd_q5o3_by_analytic adds to values[v]
dcsd_q5o3_add(anai, cm) ==
  LET n == NF2E(cm)
      face_of == [i \in 0 .. (n - 1) |-> FaceOf(cm, i)]
      tet_vol ==
        [i \in 0 .. (n - 1) |->
           cs_math_voltet(cm.xv[EntryVertex(cm, i, 0)],
                          cm.xv[EntryVertex(cm, i, 1)],
                          cm.face[face_of[i]].center, cm.xc) \div 2]
      sum(i, v) ==
        LET q == cs_quadrature_tet_5pts(cm.xv[v],
                                        cm.edge[cm.f2e_ids[i]].center,
                                        cm.face[face_of[i]].center, cm.xc,
                                        tet_vol[i])
        IN  SumTo([p \in 0 .. 4 |-> func(anai, q.gauss_pts[p]) * q.weights[p]],
                  5)
      add(v) ==
        SumTo([i \in 0 .. (n - 1) |->
                 IF HasVertex(cm, i, v) THEN sum(i, v) ELSE 0], n)
  IN  [v \in 0 .. (cm.n_vc - 1) |-> add(v)]

Q5o3Add ==
  [c_id \in CellIds |->
     [anai \in Polynomials |-> dcsd_q5o3_add(anai, CellGeometry[c_id])]]

\* scalar density at dual cells, by analytic function, five-point quadrature
cs_source_term_dcsd_q5o3_by_analytic(source, cm, cb, values) ==
  IF source = NULL_XDEF THEN values
  ELSE
    LET add == Q5o3Add[cm.c_id][source.input]
    IN  [v \in DOMAIN values |->
           IF v < cm.n_vc THEN values[v] + add[v] ELSE values[v]]

(***************************************************************************)
(* Evaluators as function pointers: the name of the function stands for    *)
(* its address.                                                            *)
(***************************************************************************)
Evaluators ==
  {"cs_source_term_pvsp_by_value", "cs_source_term_pvsp_by_analytic",
   "cs_source_term_dcsd_by_value", "cs_source_term_dcsd_bary_by_analytic",
   "cs_source_term_dcsd_q1o1_by_analytic",
   "cs_source_term_dcsd_q10o2_by_analytic",
   "cs_source_term_dcsd_q5o3_by_analytic",
   "cs_source_term_vcsp_by_value", "cs_source_term_vcsp_by_analytic",
   "cs_source_term_fbsd_by_value", "cs_source_term_fbsd_bary_by_analytic"}

\* compute(source, cm, cb, values): call through the function pointer
Call(compute, source, cm, cb, values) ==
  CASE compute = "cs_source_term_pvsp_by_value" ->
         cs_source_term_pvsp_by_value(source, cm, cb, values)
    [] compute = "cs_source_term_pvsp_by_analytic" ->
         cs_source_term_pvsp_by_analytic(source, cm, cb, values)
    [] compute = "cs_source_term_dcsd_by_value" ->
         cs_source_term_dcsd_by_value(source, cm, cb, values)
    [] compute = "cs_source_term_dcsd_bary_by_analytic" ->
         cs_source_term_dcsd_bary_by_analytic(source, cm, cb, values)
    [] compute = "cs_source_term_dcsd_q1o1_by_analytic" ->
         cs_source_term_dcsd_q1o1_by_analytic(source, cm, cb, values)
    [] compute = "cs_source_term_dcsd_q10o2_by_analytic" ->
         cs_source_term_dcsd_q10o2_by_analytic(source, cm, cb, values)
    [] compute = "cs_source_term_dcsd_q5o3_by_analytic" ->
         cs_source_term_dcsd_q5o3_by_analytic(source, cm, cb, values)
    [] compute = "cs_source_term_vcsp_by_value" ->
         cs_source_term_vcsp_by_value(source, cm, cb, values)
    [] compute = "cs_source_term_vcsp_by_analytic" ->
         cs_source_term_vcsp_by_analytic(source, cm, cb, values)
    [] compute = "cs_source_term_fbsd_by_value" ->
         cs_source_term_fbsd_by_value(source, cm, cb, values)
    [] compute = "cs_source_term_fbsd_bary_by_analytic" ->
         cs_source_term_fbsd_bary_by_analytic(source, cm, cb, values)
    [] OTHER -> values

\* the bits of cm->flag which the sanity checks of an evaluator ask for
AssertedFlag(compute) ==
  CASE compute = "cs_source_term_pvsp_by_value" -> CS_CDO_LOCAL_PV
    [] compute = "cs_source_term_pvsp_by_analytic" -> CS_CDO_LOCAL_PV
    [] compute = "cs_source_term_dcsd_by_value" -> CS_CDO_LOCAL_PVQ
    [] compute = "cs_source_term_dcsd_bary_by_analytic" ->
         CS_CDO_LOCAL_PVQ \cup CS_CDO_LOCAL_PFQ \cup CS_CDO_LOCAL_HFQ
           \cup CS_CDO_LOCAL_FE \cup CS_CDO_LOCAL_FEQ \cup CS_CDO_LOCAL_EV
    [] compute = "cs_source_term_dcsd_q1o1_by_analytic" ->
         CS_CDO_LOCAL_PFQ \cup CS_CDO_LOCAL_HFQ \cup CS_CDO_LOCAL_FE
           \cup CS_CDO_LOCAL_FEQ \cup CS_CDO_LOCAL_EV
    [] compute = "cs_source_term_dcsd_q10o2_by_analytic" ->
         CS_CDO_LOCAL_PFQ \cup CS_CDO_LOCAL_HFQ \cup CS_CDO_LOCAL_FE
           \cup CS_CDO_LOCAL_FEQ \cup CS_CDO_LOCAL_EV \cup CS_CDO_LOCAL_PVQ
           \cup CS_CDO_LOCAL_PEQ
    [] compute = "cs_source_term_dcsd_q5o3_by_analytic" ->
         CS_CDO_LOCAL_PEQ \cup CS_CDO_LOCAL_PFQ \cup CS_CDO_LOCAL_FE
           \cup CS_CDO_LOCAL_EV
    [] OTHER -> {}

\* the sanity checks on cm->flag of an evaluator called with a definition
SanityChecks(compute, source, cm) ==
  source = NULL_XDEF \/ cs_test_flag(cm.flag, AssertedFlag(compute))

(***************************************************************************)
(* Definitions (cs_xdef_t) and the setting of the source terms             *)
(***************************************************************************)

\* a new definition on a volume zone; the quadrature is barycentric by default
cs_xdef_volume_create(type, z_id, meta, input) ==
  [type |-> type, z_id |-> z_id, meta |-> meta, qtype |-> "BARY",
   input |-> input]

cs_xdef_set_quadrature(d, qtype) == [d EXCEPT !.qtype = qtype]

\* default flag of a source term for a space scheme; ok is FALSE when
\* bft_error is called
cs_source_term_set_default_flag(scheme) ==
  CASE scheme = "CDOVB" ->
         [ok |-> TRUE, meta_flag |-> CS_FLAG_DUAL \cup CS_FLAG_CELL]
    [] scheme = "CDOFB" ->
         [ok |-> TRUE, meta_flag |-> CS_FLAG_PRIMAL \cup CS_FLAG_CELL]
    [] scheme \in {"CDOVCB", "HHO"} ->
         [ok |-> TRUE, meta_flag |-> CS_FLAG_PRIMAL]
    [] OTHER -> [ok |-> FALSE, meta_flag |-> {}]

\* change of the reduction (primal or dual) of a source term; ok is FALSE
\* when bft_error is called
\* no part of the flag before is kept
cs_source_term_set_reduction_nothing_kept(st, flag) ==
  IF st = NULL_XDEF THEN [ok |-> FALSE, st |-> st]
  ELSE IF st.meta \cap flag # {} THEN [ok |-> TRUE, st |-> st]
  ELSE IF flag \cap CS_FLAG_DUAL # {} /\ st.meta \cap CS_FLAG_VERTEX # {}
    THEN [ok |-> TRUE,
          st |-> [st EXCEPT !.meta = CS_FLAG_DUAL \cup CS_FLAG_CELL]]
  ELSE IF flag \cap CS_FLAG_DUAL = {} /\ flag \cap CS_FLAG_PRIMAL # {}
            /\ st.meta \cap CS_FLAG_CELL # {}
    THEN [ok |-> TRUE,
          st |-> [st EXCEPT !.meta = CS_FLAG_PRIMAL \cup CS_FLAG_VERTEX]]
  ELSE [ok |-> FALSE, st |-> [st EXCEPT !.meta = {}]]

cs_source_term_set_reduction(st, flag) ==
  IF st = NULL_XDEF THEN [ok |-> FALSE, st |-> st]
  ELSE IF st.meta \cap flag # {} THEN [ok |-> TRUE, st |-> st]
  ELSE
    LET save_meta == st.meta
        kept ==
          save_meta \cap (CS_FLAG_SCALAR \cup CS_FLAG_VECTOR \cup CS_FLAG_TENSOR
                            \cup CS_FLAG_BORDER \cup CS_FLAG_BY_CELL
                            \cup CS_FLAG_FULL_LOC)
    IN  IF flag \cap CS_FLAG_DUAL # {}
          THEN IF save_meta \cap CS_FLAG_VERTEX # {}
                 THEN [ok |-> TRUE,
                       st |-> [st EXCEPT
                                 !.meta = kept \cup CS_FLAG_DUAL \cup CS_FLAG_CELL]]
                 ELSE [ok |-> FALSE, st |-> [st EXCEPT !.meta = kept]]
        ELSE IF flag \cap CS_FLAG_PRIMAL # {}
          THEN IF save_meta \cap CS_FLAG_CELL # {}
                 THEN [ok |-> TRUE,
                       st |-> [st EXCEPT
                                 !.meta = kept \cup CS_FLAG_PRIMAL
                                            \cup CS_FLAG_VERTEX]]
                 ELSE [ok |-> FALSE, st |-> [st EXCEPT !.meta = kept]]
        ELSE [ok |-> FALSE, st |-> [st EXCEPT !.meta = kept]]

(***************************************************************************)
(* Masks (cs_mask_t): unsigned words of MaskBits bits                      *)
(***************************************************************************)
Bit(m, i) == (m \div Pow2(i)) % 2

RECURSIVE BitOrTo(_, _, _)
\* the bits 0..n-1 of a | b
BitOrTo(a, b, n) ==
  IF n = 0 THEN 0
  ELSE BitOrTo(a, b, n - 1)
         + (IF Bit(a, n - 1) = 1 \/ Bit(b, n - 1) = 1 THEN Pow2(n - 1) ELSE 0)

RECURSIVE BitAndTo(_, _, _)
\* the bits 0..n-1 of a & b
BitAndTo(a, b, n) ==
  IF n = 0 THEN 0
  ELSE BitAndTo(a, b, n - 1)
         + (IF Bit(a, n - 1) = 1 /\ Bit(b, n - 1) = 1 THEN Pow2(n - 1) ELSE 0)

\* 1 << st_id stored in a word with one bit less (a signed word)
MaskOf_signed(st_id) == Pow2(st_id) % Pow2(MaskBits - 1)

\* (cs_mask_t)(1 << st_id)
MaskOf(st_id) == Pow2(st_id) % Pow2(MaskBits)

\* a | b and a & b stored in a cs_mask_t
MaskOr(a, b) == BitOrTo(a, b, MaskBits)
MaskAnd(a, b) == BitAndTo(a, b, MaskBits)

RECURSIVE ZoneLoop(_, _, _, _)
\* for (i = 0; i < n; i++) cell_mask[z->cell_ids[i]] |= mask
ZoneLoop(z, n, mask, cell_mask) ==
  IF n = 0 THEN cell_mask
  ELSE LET m == ZoneLoop(z, n - 1, mask, cell_mask)
           c == z.cell_ids[n - 1]
       IN  [m EXCEPT ![c] = MaskOr(m[c], mask)]

\* _set_mask with the bit of the next source term: mask = (1 << (st_id + 1))
_set_mask_next_bit(st, st_id, cell_mask) ==
  IF st = NULL_XDEF THEN [ok |-> FALSE, cell_mask |-> cell_mask]
  ELSE
    LET mask == MaskOf(st_id + 1)
    IN  IF st.meta \cap CS_FLAG_FULL_LOC # {}
          THEN [ok |-> TRUE,
                cell_mask |-> [i \in DOMAIN cell_mask |->
                                 MaskOr(cell_mask[i], mask)]]
          ELSE LET z == cs_volume_zone_by_id(st.z_id)
               IN  [ok |-> TRUE,
                    cell_mask |-> ZoneLoop(z, z.n_cells, mask, cell_mask)]

\* update of the mask of each cell for the source term st_id; ok is FALSE
\* when bft_error is called
_set_mask(st, st_id, cell_mask) ==
  IF st = NULL_XDEF THEN [ok |-> FALSE, cell_mask |-> cell_mask]
  ELSE
    LET mask == MaskOf(st_id)
    IN  IF st.meta \cap CS_FLAG_FULL_LOC # {}
          THEN [ok |-> TRUE,
                cell_mask |-> [i \in DOMAIN cell_mask |->
                                 MaskOr(cell_mask[i], mask)]]
          ELSE LET z == cs_volume_zone_by_id(st.z_id)
               IN  [ok |-> TRUE,
                    cell_mask |-> ZoneLoop(z, z.n_cells, mask, cell_mask)]

(***************************************************************************)
(* cs_source_term_init                                                     *)
(***************************************************************************)

\* one case of the switch: the bits added to msh_flag and the evaluator bound
Bind(flag, compute) ==
  [ok |-> TRUE, msh_flag |-> flag, compute |-> compute, err |-> ""]

\* bft_error in the switch: nothing is bound
Fail(msg) ==
  [ok |-> FALSE, msh_flag |-> {}, compute |-> NULL_FUNC, err |-> msg]

\* the case CS_SPACE_SCHEME_CDOVB where the ten-point quadrature does not ask
\* for the quantities of the primal edges (CS_CDO_LOCAL_PEQ)
ClassifyCDOVB_q10o2_without_peq(st_def) ==
  IF st_def.meta \cap CS_FLAG_DUAL # {}
    THEN
      CASE st_def.type = "BY_VALUE" ->
             Bind(CS_CDO_LOCAL_PVQ, "cs_source_term_dcsd_by_value")
        [] st_def.type = "BY_ANALYTIC_FUNCTION" ->
             (CASE st_def.qtype = "BARY" ->
                     Bind(CS_CDO_LOCAL_PVQ \cup CS_CDO_LOCAL_EV
                            \cup CS_CDO_LOCAL_PFQ \cup CS_CDO_LOCAL_HFQ
                            \cup CS_CDO_LOCAL_FE \cup CS_CDO_LOCAL_FEQ,
                          "cs_source_term_dcsd_bary_by_analytic")
                [] st_def.qtype = "BARY_SUBDIV" ->
                     Bind(CS_CDO_LOCAL_EV \cup CS_CDO_LOCAL_PFQ
                            \cup CS_CDO_LOCAL_HFQ \cup CS_CDO_LOCAL_FE
                            \cup CS_CDO_LOCAL_FEQ,
                          "cs_source_term_dcsd_q1o1_by_analytic")
                [] st_def.qtype = "HIGHER" ->
                     Bind(CS_CDO_LOCAL_PFQ \cup CS_CDO_LOCAL_HFQ
                            \cup CS_CDO_LOCAL_FE \cup CS_CDO_LOCAL_FEQ
                            \cup CS_CDO_LOCAL_EV \cup CS_CDO_LOCAL_PVQ,
                          "cs_source_term_dcsd_q10o2_by_analytic")
                [] st_def.qtype = "HIGHEST" ->
                     Bind(CS_CDO_LOCAL_PEQ \cup CS_CDO_LOCAL_PFQ
                            \cup CS_CDO_LOCAL_FE \cup CS_CDO_LOCAL_EV,
                          "cs_source_term_dcsd_q5o3_by_analytic")
                [] OTHER ->
                     Fail("Invalid type of quadrature for computing a source term with CDOVB schemes"))
        [] OTHER ->
             Fail("Invalid type of definition for a source term in CDOVB")
    ELSE
      CASE st_def.type = "BY_VALUE" ->
             Bind(CS_CDO_LOCAL_PV, "cs_source_term_pvsp_by_value")
        [] st_def.type = "BY_ANALYTIC_FUNCTION" ->
             Bind(CS_CDO_LOCAL_PV, "cs_source_term_pvsp_by_analytic")
        [] OTHER ->
             Fail("Invalid type of definition for a source term in CDOVB")

\* the case CS_SPACE_SCHEME_CDOVB where CS_QUADRATURE_HIGHER is handled as
\* CS_QUADRATURE_HIGHEST
ClassifyCDOVB_higher_as_highest(st_def) ==
  IF st_def.meta \cap CS_FLAG_DUAL # {}
    THEN
      CASE st_def.type = "BY_VALUE" ->
             Bind(CS_CDO_LOCAL_PVQ, "cs_source_term_dcsd_by_value")
        [] st_def.type = "BY_ANALYTIC_FUNCTION" ->
             (CASE st_def.qtype = "BARY" ->
                     Bind(CS_CDO_LOCAL_PVQ \cup CS_CDO_LOCAL_EV
                            \cup CS_CDO_LOCAL_PFQ \cup CS_CDO_LOCAL_HFQ
                            \cup CS_CDO_LOCAL_FE \cup CS_CDO_LOCAL_FEQ,
                          "cs_source_term_dcsd_bary_by_analytic")
                [] st_def.qtype = "BARY_SUBDIV" ->
                     Bind(CS_CDO_LOCAL_EV \cup CS_CDO_LOCAL_PFQ
                            \cup CS_CDO_LOCAL_HFQ \cup CS_CDO_LOCAL_FE
                            \cup CS_CDO_LOCAL_FEQ,
                          "cs_source_term_dcsd_q1o1_by_analytic")
                [] st_def.qtype \in {"HIGHER", "HIGHEST"} ->
                     Bind(CS_CDO_LOCAL_PEQ \cup CS_CDO_LOCAL_PFQ
                            \cup CS_CDO_LOCAL_FE \cup CS_CDO_LOCAL_EV,
                          "cs_source_term_dcsd_q5o3_by_analytic")
                [] OTHER ->
                     Fail("Invalid type of quadrature for computing a source term with CDOVB schemes"))
        [] OTHER ->
             Fail("Invalid type of definition for a source term in CDOVB")
    ELSE
      CASE st_def.type = "BY_VALUE" ->
             Bind(CS_CDO_LOCAL_PV, "cs_source_term_pvsp_by_value")
        [] st_def.type = "BY_ANALYTIC_FUNCTION" ->
             Bind(CS_CDO_LOCAL_PV, "cs_source_term_pvsp_by_analytic")
        [] OTHER ->
             Fail("Invalid type of definition for a source term in CDOVB")

\* case CS_SPACE_SCHEME_CDOVB
ClassifyCDOVB(st_def) ==
  IF st_def.meta \cap CS_FLAG_DUAL # {}
    THEN
      CASE st_def.type = "BY_VALUE" ->
             Bind(CS_CDO_LOCAL_PVQ, "cs_source_term_dcsd_by_value")
        [] st_def.type = "BY_ANALYTIC_FUNCTION" ->
             (CASE st_def.qtype = "BARY" ->
                     Bind(CS_CDO_LOCAL_PVQ \cup CS_CDO_LOCAL_EV
                            \cup CS_CDO_LOCAL_PFQ \cup CS_CDO_LOCAL_HFQ
                            \cup CS_CDO_LOCAL_FE \cup CS_CDO_LOCAL_FEQ,
                          "cs_source_term_dcsd_bary_by_analytic")
                [] st_def.qtype = "BARY_SUBDIV" ->
                     Bind(CS_CDO_LOCAL_EV \cup CS_CDO_LOCAL_PFQ
                            \cup CS_CDO_LOCAL_HFQ \cup CS_CDO_LOCAL_FE
                            \cup CS_CDO_LOCAL_FEQ,
                          "cs_source_term_dcsd_q1o1_by_analytic")
                [] st_def.qtype = "HIGHER" ->
                     Bind(CS_CDO_LOCAL_PFQ \cup CS_CDO_LOCAL_HFQ
                            \cup CS_CDO_LOCAL_FE \cup CS_CDO_LOCAL_FEQ
                            \cup CS_CDO_LOCAL_EV \cup CS_CDO_LOCAL_PVQ
                            \cup CS_CDO_LOCAL_PEQ,
                          "cs_source_term_dcsd_q10o2_by_analytic")
                [] st_def.qtype = "HIGHEST" ->
                     Bind(CS_CDO_LOCAL_PEQ \cup CS_CDO_LOCAL_PFQ
                            \cup CS_CDO_LOCAL_FE \cup CS_CDO_LOCAL_EV,
                          "cs_source_term_dcsd_q5o3_by_analytic")
                [] OTHER ->
                     Fail("Invalid type of quadrature for computing a source term with CDOVB schemes"))
        [] OTHER ->
             Fail("Invalid type of definition for a source term in CDOVB")
    ELSE
      CASE st_def.type = "BY_VALUE" ->
             Bind(CS_CDO_LOCAL_PV, "cs_source_term_pvsp_by_value")
        [] st_def.type = "BY_ANALYTIC_FUNCTION" ->
             Bind(CS_CDO_LOCAL_PV, "cs_source_term_pvsp_by_analytic")
        [] OTHER ->
             Fail("Invalid type of definition for a source term in CDOVB")

\* the case CS_SPACE_SCHEME_CDOVCB without the test of CS_FLAG_DUAL: a dual
\* definition is handled as a primal one
ClassifyCDOVCB_dual_as_primal(st_def) ==
  CASE st_def.type = "BY_VALUE" ->
         Bind(CS_CDO_LOCAL_PV, "cs_source_term_vcsp_by_value")
    [] st_def.type = "BY_ANALYTIC_FUNCTION" ->
         Bind(CS_CDO_LOCAL_PV, "cs_source_term_vcsp_by_analytic")
    [] OTHER ->
         Fail("Invalid type of definition for a source term in CDOVB")

\* case CS_SPACE_SCHEME_CDOVCB
ClassifyCDOVCB(st_def) ==
  IF st_def.meta \cap CS_FLAG_DUAL # {}
    THEN Fail("Invalid type of definition for a source term in CDOVB")
    ELSE
      CASE st_def.type = "BY_VALUE" ->
             Bind(CS_CDO_LOCAL_PV, "cs_source_term_vcsp_by_value")
        [] st_def.type = "BY_ANALYTIC_FUNCTION" ->
             Bind(CS_CDO_LOCAL_PV, "cs_source_term_vcsp_by_analytic")
        [] OTHER ->
             Fail("Invalid type of definition for a source term in CDOVB")

\* the case CS_SPACE_SCHEME_CDOFB where the default case binds the
\* evaluator of the analytic functions
ClassifyCDOFB_default_bound(st_def) ==
  CASE st_def.type = "BY_VALUE" ->
         Bind({}, "cs_source_term_fbsd_by_value")
    [] OTHER ->
         Bind(CS_CDO_LOCAL_PV, "cs_source_term_fbsd_bary_by_analytic")

\* case CS_SPACE_SCHEME_CDOFB
ClassifyCDOFB(st_def) ==
  CASE st_def.type = "BY_VALUE" ->
         Bind({}, "cs_source_term_fbsd_by_value")
    [] st_def.type = "BY_ANALYTIC_FUNCTION" ->
         Bind(CS_CDO_LOCAL_PV, "cs_source_term_fbsd_bary_by_analytic")
    [] OTHER ->
         Fail("Invalid type of definition for a source term in CDOVB")

\* the switch on the space scheme for one definition
Classify(space_scheme, st_def) ==
  CASE space_scheme = "CDOVB" -> ClassifyCDOVB(st_def)
    [] space_scheme = "CDOVCB" -> ClassifyCDOVCB(st_def)
    [] space_scheme = "CDOFB" -> ClassifyCDOFB(st_def)
    [] OTHER -> Fail("Invalid space scheme for setting the source term.")

\* what the body of the loop on source terms adds for a primal definition
\* before the switch
PrimalFlags(space_scheme, st_def) ==
  IF st_def.meta \cap CS_FLAG_PRIMAL # {}
       /\ space_scheme \in {"CDOVB", "CDOVCB"}
    THEN [msh_flag |-> CS_CDO_LOCAL_PVQ \cup CS_CDO_LOCAL_DEQ
                         \cup CS_CDO_LOCAL_PFQ \cup CS_CDO_LOCAL_EV
                         \cup CS_CDO_LOCAL_FEQ \cup CS_CDO_LOCAL_HFQ,
          sys_flag |-> CS_FLAG_SYS_HLOC_CONF \cup CS_FLAG_SYS_SOURCES_HLOC]
    ELSE [msh_flag |-> {}, sys_flag |-> {}]

\* need_mask set from the last definition only: need_mask = (... == 0)
NeedMask_assigned(need_mask, st_def) ==
  st_def.meta \cap CS_FLAG_FULL_LOC = {}

\* need_mask after the test of the full-domain flag of a definition
NeedMask(need_mask, st_def) ==
  IF st_def.meta \cap CS_FLAG_FULL_LOC = {} THEN TRUE ELSE need_mask

RECURSIVE ClassifyLoop_flag_assigned(_, _, _, _, _)
\* the loop on source terms where the flag of the mesh is assigned
\* (msh_flag = ...) instead of completed (msh_flag |= ...)
ClassifyLoop_flag_assigned(space_scheme, n_st, sts, st_id, r) ==
  IF st_id >= n_st THEN r
  ELSE
    LET st_def == sts[st_id]
    IN  IF st_def = NULL_XDEF
          THEN [r EXCEPT !.ok = FALSE, !.err = "SIGSEGV", !.err_id = st_id]
          ELSE
            LET pf == PrimalFlags(space_scheme, st_def)
                c == Classify(space_scheme, st_def)
                r1 == [r EXCEPT
                         !.msh_flag = pf.msh_flag \cup c.msh_flag,
                         !.sys_flag = @ \cup pf.sys_flag,
                         !.need_mask = NeedMask(@, st_def),
                         !.compute_source =
                            IF c.ok THEN [@ EXCEPT ![st_id] = c.compute] ELSE @]
            IN  IF c.ok
                  THEN ClassifyLoop_flag_assigned(space_scheme, n_st, sts,
                                                  st_id + 1, r1)
                  ELSE [r1 EXCEPT !.ok = FALSE, !.err = c.err, !.err_id = st_id]

RECURSIVE ClassifyLoop(_, _, _, _, _)
\* the loop on source terms from st_id to n_source_terms - 1; r is the state
\* of the local variables and of the outputs when the iteration st_id starts
ClassifyLoop(space_scheme, n_st, sts, st_id, r) ==
  IF st_id >= n_st THEN r
  ELSE
    LET st_def == sts[st_id]
    IN  IF st_def = NULL_XDEF
          THEN [r EXCEPT !.ok = FALSE, !.err = "SIGSEGV", !.err_id = st_id]
          ELSE
            LET pf == PrimalFlags(space_scheme, st_def)
                c == Classify(space_scheme, st_def)
                r1 == [r EXCEPT
                         !.msh_flag = @ \cup pf.msh_flag \cup c.msh_flag,
                         !.sys_flag = @ \cup pf.sys_flag,
                         !.need_mask = NeedMask(@, st_def),
                         !.compute_source =
                            IF c.ok THEN [@ EXCEPT ![st_id] = c.compute] ELSE @]
            IN  IF c.ok
                  THEN ClassifyLoop(space_scheme, n_st, sts, st_id + 1, r1)
                  ELSE [r1 EXCEPT !.ok = FALSE, !.err = c.err, !.err_id = st_id]

RECURSIVE MaskLoop(_, _, _, _)
\* for (st_id = 0; st_id < n; st_id++) _set_mask(source_terms[st_id], ...)
MaskLoop(sts, n, n_cells, ok) ==
  IF n = 0 THEN [ok |-> ok, cell_mask |-> [i \in 0 .. (n_cells - 1) |-> 0]]
  ELSE LET m == MaskLoop(sts, n - 1, n_cells, ok)
       IN  IF m.ok THEN _set_mask(sts[n - 1], n - 1, m.cell_mask) ELSE m

\* the array of evaluators left as the caller gave it
ResetComputeSource_skipped(compute_source) == compute_source

\* for (i = 0; i < CS_N_MAX_SOURCE_TERMS; i++) compute_source[i] = NULL
ResetComputeSource(compute_source) ==
  [i \in 0 .. (CS_N_MAX_SOURCE_TERMS - 1) |-> NULL_FUNC]

\* ok is FALSE when bft_error is called: err is its message and err_id the
\* definition handled at that time; the other fields are the outputs (as
\* they are at that time when an error is raised)
\* read[st_id] is what the classification reads through source_terms[st_id]:
\* the definition, or for a NULL entry anything (NULL_XDEF when the read
\* traps: err is then "SIGSEGV"); _set_mask tests the pointer itself
cs_source_term_init_reading(space_scheme, n_source_terms, read, source_terms, compute_source, sys_flag, source_mask) ==
  LET r0 == [ok |-> TRUE, err |-> "", err_id |-> -1,
             msh_flag |-> {}, sys_flag |-> sys_flag, need_mask |-> FALSE,
             source_mask |-> NULL_MASK,
             compute_source |-> ResetComputeSource(compute_source)]
  IN  IF n_source_terms > CS_N_MAX_SOURCE_TERMS
        THEN [r0 EXCEPT !.ok = FALSE,
                        !.err = "Limitation to %d source terms has been reached!",
                        !.source_mask = source_mask,
                        !.compute_source = compute_source]
      ELSE IF n_source_terms = 0 THEN r0
      ELSE
        LET r == ClassifyLoop(space_scheme, n_source_terms, read, 0, r0)
        IN  IF ~r.ok \/ ~r.need_mask THEN r
            ELSE LET m == MaskLoop(source_terms, n_source_terms, NCells, TRUE)
                 IN  IF m.ok THEN [r EXCEPT !.source_mask = m.cell_mask]
                     ELSE [r EXCEPT !.ok = FALSE,
                                    !.err = "Stop setting an empty cs_xdef_t structure."]

\* every read of a definition gives what the list holds
cs_source_term_init(space_scheme, n_source_terms, source_terms, compute_source, sys_flag, source_mask) ==
  cs_source_term_init_reading(space_scheme, n_source_terms, source_terms, source_terms, compute_source, sys_flag, source_mask)

(***************************************************************************)
(* cs_source_term_compute_cellwise                                         *)
(***************************************************************************)

\* the call for the source term st_id made through compute_source[0] when
\* the first definition has the type of the definition st_id
ComputeOne_first_bound(sts, st_id, cm, compute_source, cb, r) ==
  LET compute == IF sts[0].type = sts[st_id].type THEN compute_source[0]
                 ELSE compute_source[st_id]
  IN  IF compute = NULL_FUNC THEN [r EXCEPT !.fault = TRUE]
      ELSE IF ~SanityChecks(compute, sts[st_id], cm)
        THEN [r EXCEPT !.asserts = FALSE]
      ELSE [r EXCEPT !.source = Call(compute, sts[st_id], cm, cb, @),
                     !.calls = Append(@, st_id)]

\* compute(source_terms[st_id], cm, cb, csys->source) in the state r: the
\* buffer, the list of the source terms whose evaluator has been called,
\* whether a call was made through a null pointer (fault) and whether the
\* sanity checks of the evaluators called hold (asserts)
ComputeOne(sts, st_id, cm, compute_source, cb, r) ==
  LET compute == compute_source[st_id]
  IN  IF compute = NULL_FUNC THEN [r EXCEPT !.fault = TRUE]
      ELSE IF ~SanityChecks(compute, sts[st_id], cm)
        THEN [r EXCEPT !.asserts = FALSE]
      ELSE [r EXCEPT !.source = Call(compute, sts[st_id], cm, cb, @),
                     !.calls = Append(@, st_id)]

RECURSIVE LoopWithoutMask_from_1(_, _, _, _, _, _)
\* the loop when source_mask is NULL starting at st_id = 1
LoopWithoutMask_from_1(n_st, sts, cm, compute_source, cb, r) ==
  IF n_st <= 1 THEN r
  ELSE
    LET p == LoopWithoutMask_from_1(n_st - 1, sts, cm, compute_source, cb, r)
    IN  IF p.fault \/ ~p.asserts THEN p
        ELSE ComputeOne(sts, n_st - 1, cm, compute_source, cb, p)

RECURSIVE LoopWithoutMask(_, _, _, _, _, _)
\* the loop on the source terms 0..n_st-1 when source_mask is NULL
LoopWithoutMask(n_st, sts, cm, compute_source, cb, r) ==
  IF n_st = 0 THEN r
  ELSE
    LET p == LoopWithoutMask(n_st - 1, sts, cm, compute_source, cb, r)
    IN  IF p.fault \/ ~p.asserts THEN p
        ELSE ComputeOne(sts, n_st - 1, cm, compute_source, cb, p)

\* the loop when source_mask is not NULL without the test of the mask
LoopWithMask_untested(n_st, sts, cm, source_mask, compute_source, cb, r) ==
  LoopWithoutMask(n_st, sts, cm, compute_source, cb, r)

RECURSIVE LoopWithMask(_, _, _, _, _, _, _)
\* the loop on the source terms 0..n_st-1 when source_mask is not NULL
LoopWithMask(n_st, sts, cm, source_mask, compute_source, cb, r) ==
  IF n_st = 0 THEN r
  ELSE
    LET p == LoopWithMask(n_st - 1, sts, cm, source_mask, compute_source, cb, r)
        st_id == n_st - 1
        st_mask == MaskOf(st_id)
    IN  IF p.fault \/ ~p.asserts THEN p
        ELSE IF MaskAnd(source_mask[cm.c_id], st_mask) # 0
          THEN ComputeOne(sts, st_id, cm, compute_source, cb, p)
        ELSE p

\* no reset of the local contributions
ResetSource_skipped(csys) == csys.source

\* reset of the local contributions but the last one: i < n_dofs - 1
ResetSource_short(csys) ==
  [i \in DOMAIN csys.source |->
     IF i < csys.n_dofs - 1 THEN 0 ELSE csys.source[i]]

\* reset of the local contributions
ResetSource(csys) ==
  [i \in DOMAIN csys.source |-> IF i < csys.n_dofs THEN 0 ELSE csys.source[i]]

\* csys is the cellwise system: n_dofs and the buffer source
\* the flag of the system is not tested
cs_source_term_compute_cellwise_flag_untested(n_source_terms, source_terms, cm, sys_flag, source_mask, compute_source, cb, csys) ==
  LET r0 == [source |-> ResetSource(csys), calls |-> << >>, fault |-> FALSE,
             asserts |-> TRUE]
  IN  IF source_mask = NULL_MASK
        THEN LoopWithoutMask(n_source_terms, source_terms, cm, compute_source,
                             cb, r0)
      ELSE LoopWithMask(n_source_terms, source_terms, cm, source_mask,
                        compute_source, cb, r0)

cs_source_term_compute_cellwise(n_source_terms, source_terms, cm, sys_flag, source_mask, compute_source, cb, csys) ==
  LET r0 == [source |-> ResetSource(csys), calls |-> << >>, fault |-> FALSE,
             asserts |-> TRUE]
  IN  IF sys_flag \cap CS_FLAG_SYS_SOURCETERM = {} THEN r0
      ELSE IF source_mask = NULL_MASK
        THEN LoopWithoutMask(n_source_terms, source_terms, cm, compute_source,
                             cb, r0)
      ELSE LoopWithMask(n_source_terms, source_terms, cm, source_mask,
                        compute_source, cb, r0)

(***************************************************************************)
(* What the caller of the dispatcher sets for each space scheme            *)
(***************************************************************************)
\* number of DoFs of the cellwise system
NDofs(space_scheme, cm) ==
  CASE space_scheme = "CDOVB" -> cm.n_vc
    [] space_scheme = "CDOVCB" -> cm.n_vc + 1
    [] OTHER -> cm.n_fc + 1

\* size of the local Hodge operator
HodgeSize(space_scheme, cm) ==
  IF space_scheme = "CDOVB" THEN cm.n_vc ELSE cm.n_vc + 1

\* an address which is not the one of an evaluator
DANGLING == "dangling"

\* what the memory allocated (and not set) by the caller for the builder and
\* the cellwise system holds: zeros, or anything else
Allocations ==
  {[source |-> ZeroBuf,
    compute_source |-> [i \in 0 .. (CS_N_MAX_SOURCE_TERMS - 1) |-> NULL_FUNC],
    source_mask |-> NULL_MASK],
   [source |-> [i \in BufIds |-> 7 + i],
    compute_source |-> [i \in 0 .. (CS_N_MAX_SOURCE_TERMS - 1) |-> DANGLING],
    source_mask |-> [c \in CellIds |-> Pow2(MaskBits) - 1]]}

(***************************************************************************)
(* State                                                                   *)
(***************************************************************************)
\* bits of eqp->flag and of eqp->enforcement_type
CS_EQUATION_LOCKED == {"LOCKED"}
CS_EQUATION_FORCE_VALUES == {"FORCE_VALUES"}
CS_EQUATION_ENFORCE_BY_CELLS == {"ENFORCE_BY_CELLS"}
CS_EQUATION_ENFORCE_BY_DOFS == {"ENFORCE_BY_DOFS"}
CS_EQUATION_ENFORCE_BY_REFERENCE_VALUE == {"ENFORCE_BY_REFERENCE_VALUE"}

\* a pointer to no array
NULL_ARRAY == << >>

\* the members set when the structure is created
cs_equation_create_param ==
  [flag |-> {}, do_lumping |-> FALSE,
   enforcement_type |-> {}, enforcement_ref_value |-> <<0>>,
   n_enforced_cells |-> 0, enforced_cell_ids |-> NULL_ARRAY,
   enforced_cell_values |-> NULL_ARRAY,
   n_enforced_dofs |-> 0, enforced_dof_ids |-> NULL_ARRAY,
   enforced_dof_values |-> NULL_ARRAY]

VARIABLES
  space_scheme,    \* eqp->space_scheme
  n_source_terms,  \* eqp->n_source_terms
  source_terms,    \* eqp->source_terms
  stage,           \* "setup" while source terms are added, "tune" once the
                   \* settings are modified (the space scheme, or the last
                   \* source term added), then "run"; "error" after bft_error,
                   \* "fault" after a call through a null pointer,
                   \* "assert" after a failed sanity check
  err,             \* [msg, id] of the error raised
  compute_source,  \* array of evaluators
  msh_flag,        \* flag returned by cs_source_term_init
  sys_flag,        \* flag of the algebraic system
  source_mask,     \* mask of each cell or NULL_MASK
  source,          \* csys->source
  last,            \* the last call of the dispatcher: its cell, whether the
                   \* buffer was zero at the call, the evaluators called and
                   \* prev, the buffer left by the call before when that one
                   \* was for the same cell on a buffer of zeros
  mb,              \* the build of the mask by the OpenMP threads inside
                   \* cs_source_term_init
  par,             \* the threads calling the dispatcher, each for its cell
  eqp              \* the members of the equation parameters which hold the
                   \* lock, the lumping and the enforcement of DoFs

vars ==
  <<space_scheme, n_source_terms, source_terms, stage, err, compute_source,
    msh_flag, sys_flag, source_mask, source, last, mb, par, eqp>>

NoErr == [msg |-> "", id |-> -1]
NoBuf == << >>
NoCall == [c_id |-> -1, zeroed |-> FALSE, calls |-> << >>, prev |-> NoBuf]
\* no mask is being built, no thread is running
NoBuild == [phase |-> "none"]
NoTeam == [phase |-> "none"]

Init ==
  /\ space_scheme = "CDOVB"
  /\ n_source_terms = 0
  /\ source_terms = << >>
  /\ stage = "setup"
  /\ err = NoErr
  /\ compute_source = [i \in 0 .. (CS_N_MAX_SOURCE_TERMS - 1) |-> NULL_FUNC]
  /\ msh_flag = {}
  /\ sys_flag = {}
  /\ source_mask = NULL_MASK
  /\ source = ZeroBuf
  /\ last = NoCall
  /\ mb = NoBuild
  /\ par = NoTeam
  /\ eqp = cs_equation_create_param

\* bft_error: the program stops
Fatal(msg, id) ==
  /\ stage' = "error"
  /\ err' = [msg |-> msg, id |-> id]

\* eqp->source_terms[new_id] = d after BFT_REALLOC
\* the new definition takes the first place of the list
AppendSourceTerm_at_front(d) ==
  /\ n_source_terms' = n_source_terms + 1
  /\ source_terms' =
       [i \in 0 .. n_source_terms |-> IF i = 0 THEN d ELSE source_terms[i - 1]]

AppendSourceTerm(d) ==
  /\ n_source_terms' = n_source_terms + 1
  /\ source_terms' =
       [i \in 0 .. n_source_terms |->
          IF i = n_source_terms THEN d ELSE source_terms[i]]

\* cs_equation_set_param(eqp, CS_EQKEY_SPACE_SCHEME, keyval)
SetSpaceScheme(scheme) ==
  /\ stage \in {"setup", "tune"}
  /\ scheme # space_scheme
  /\ eqp.flag \cap CS_EQUATION_LOCKED = {}
  /\ space_scheme' = scheme
  /\ stage' = IF n_source_terms = 0 THEN stage ELSE "tune"
  /\ UNCHANGED <<n_source_terms, source_terms, err, compute_source,
                 msh_flag, sys_flag, source_mask, source, last,
                 mb, par, eqp>>

\* the four functions adding a source term have the same body but for the
\* type, the input and the quadrature of the definition
AddSourceTermUpTo(limit, type, z_id, input, qtype) ==
  LET dflt == cs_source_term_set_default_flag(space_scheme)
      meta_flag ==
        IF z_id = 0 THEN dflt.meta_flag \cup CS_FLAG_FULL_LOC ELSE dflt.meta_flag
      d == cs_xdef_volume_create(type, z_id, meta_flag, input)
  IN  /\ stage = "setup"
      /\ n_source_terms < limit
      /\ IF dflt.ok
           THEN /\ AppendSourceTerm(IF qtype = "BARY" THEN d
                                    ELSE cs_xdef_set_quadrature(d, qtype))
                /\ UNCHANGED <<stage, err>>
           ELSE /\ Fatal("Invalid numerical scheme to set a source term.", -1)
                /\ UNCHANGED <<n_source_terms, source_terms>>
      /\ UNCHANGED <<space_scheme, compute_source, msh_flag, sys_flag,
                     source_mask, source, last,
                     mb, par, eqp>>

\* at most MaxST source terms are added to the equation
AddSourceTerm(type, z_id, input, qtype) ==
  AddSourceTermUpTo(MaxST, type, z_id, input, qtype)

cs_equation_add_source_term_by_val(z_id, val) ==
  AddSourceTerm("BY_VALUE", z_id, [val |-> val], "BARY")

cs_equation_add_source_term_by_analytic(z_id, anai) ==
  AddSourceTerm("BY_ANALYTIC_FUNCTION", z_id, anai, "BARY_SUBDIV")

cs_equation_add_source_term_by_dof_func(z_id, loc_flag) ==
  AddSourceTerm("BY_DOF_FUNCTION", z_id, [loc |-> loc_flag], "BARY_SUBDIV")

cs_equation_add_source_term_by_array(z_id, loc) ==
  AddSourceTerm("BY_ARRAY", z_id, [loc |-> loc, stride |-> 1], "BARY")

\* the user modifies the definition d returned by the last call adding a
\* source term, once every source term is added
LastAdded == n_source_terms - 1

\* cs_xdef_set_quadrature(d, qtype) by the user
SetQuadrature(st_id, qtype) ==
  /\ stage \in {"setup", "tune"}
  /\ n_source_terms > 0
  /\ st_id = LastAdded
  /\ source_terms[st_id].type = "BY_ANALYTIC_FUNCTION"
  /\ source_terms' =
       [source_terms EXCEPT ![st_id] = cs_xdef_set_quadrature(@, qtype)]
  /\ stage' = "tune"
  /\ UNCHANGED <<space_scheme, n_source_terms, err, compute_source,
                 msh_flag, sys_flag, source_mask, source, last,
                 mb, par, eqp>>

\* cs_source_term_set_reduction(d, flag) by the user
SetReduction(st_id, flag) ==
  LET r == cs_source_term_set_reduction(source_terms[st_id], flag)
  IN  /\ stage \in {"setup", "tune"}
      /\ n_source_terms > 0
      /\ st_id = LastAdded
      /\ source_terms' = [source_terms EXCEPT ![st_id] = r.st]
      /\ IF r.ok THEN stage' = "tune" /\ err' = err
         ELSE Fatal("Stop modifying the source term flag.", st_id)
      /\ UNCHANGED <<space_scheme, n_source_terms, compute_source, msh_flag,
                     sys_flag, source_mask, source, last,
                     mb, par, eqp>>

\* the equation is initialized: cs_source_term_init is called with the flag
\* of the system set by the caller, and the cellwise system is allocated
SourceTermInitReading(read, caller_flag, alloc) ==
  LET r == cs_source_term_init_reading(space_scheme, n_source_terms, read,
                                       source_terms, alloc.compute_source,
                                       caller_flag, alloc.source_mask)
  IN  /\ stage \in {"setup", "tune"}
      /\ compute_source' = r.compute_source
      /\ msh_flag' = r.msh_flag
      /\ sys_flag' = r.sys_flag
      /\ source_mask' = r.source_mask
      /\ IF r.ok
           THEN /\ stage' = "run"
                /\ err' = err
                /\ source' = alloc.source
           ELSE IF r.err = "SIGSEGV"
             THEN /\ stage' = "fault"
                  /\ err' = err
                  /\ source' = source
           ELSE /\ Fatal(r.err, r.err_id)
                /\ source' = source
      /\ UNCHANGED <<space_scheme, n_source_terms, source_terms, last,
                     mb, par, eqp>>

\* the list holds definitions only: a read gives the definition
SourceTermInit(caller_flag, alloc) ==
  SourceTermInitReading(source_terms, caller_flag, alloc)

\* the local contributions of the source terms in the cell c_id
ComputeCellwise(c_id) ==
  LET cm == cs_cell_mesh(c_id, msh_flag)
      cb == cs_cell_builder(cm, HodgeSize(space_scheme, cm))
      csys == [n_dofs |-> NDofs(space_scheme, cm), source |-> source]
      r == cs_source_term_compute_cellwise(n_source_terms, source_terms, cm,
                                           sys_flag, source_mask,
                                           compute_source, cb, csys)
      call == [c_id |-> c_id, zeroed |-> (source = ZeroBuf),
               calls |-> r.calls,
               prev |-> IF last.c_id = c_id /\ last.zeroed THEN source
                        ELSE NoBuf]
  IN  /\ stage = "run"
      /\ stage' = IF r.fault THEN "fault"
                  ELSE IF ~r.asserts THEN "assert" ELSE "run"
      /\ source' = r.source
      /\ last' = call
      /\ UNCHANGED <<space_scheme, n_source_terms, source_terms, err,
                     compute_source, msh_flag, sys_flag, source_mask,
                     mb, par, eqp>>

Next ==
  \/ \E scheme \in SpaceSchemes : SetSpaceScheme(scheme)
  \/ \E z_id \in ZoneIds, val \in Values :
       cs_equation_add_source_term_by_val(z_id, val)
  \/ \E z_id \in ZoneIds, anai \in AnalyticFuncs :
       cs_equation_add_source_term_by_analytic(z_id, anai)
  \/ \E z_id \in ZoneIds :
       cs_equation_add_source_term_by_dof_func(z_id, CS_FLAG_PRIMAL \cup CS_FLAG_CELL)
  \/ \E z_id \in ZoneIds :
       cs_equation_add_source_term_by_array(z_id, CS_FLAG_PRIMAL \cup CS_FLAG_CELL)
  \/ \E st_id \in 0 .. (MaxST - 1), qtype \in QuadratureTypes :
       SetQuadrature(st_id, qtype)
  \/ \E st_id \in 0 .. (MaxST - 1), flag \in {CS_FLAG_PRIMAL, CS_FLAG_DUAL} :
       SetReduction(st_id, flag)
  \/ \E on \in BOOLEAN, alloc \in Allocations :
       SourceTermInit(IF on THEN CS_FLAG_SYS_SOURCETERM ELSE {}, alloc)
  \/ \E c_id \in CellIds : ComputeCellwise(c_id)

Spec == Init /\ [][Next]_vars

(***************************************************************************)
(* An equation with many source terms: by-value source terms are added     *)
(* until there is one more than cs_source_term_init accepts, then the      *)
(* equation is initialized.                                                *)
(***************************************************************************)
MaxMany == CS_N_MAX_SOURCE_TERMS + 1

\* the space scheme is chosen before the source terms are added
ChooseSpaceScheme(scheme) ==
  /\ n_source_terms = 0
  /\ SetSpaceScheme(scheme)

\* cs_equation_add_source_term_by_val, up to MaxMany source terms
AddOneOfMany(z_id, val) ==
  AddSourceTermUpTo(MaxMany, "BY_VALUE", z_id, [val |-> val], "BARY")

NextMany ==
  \/ \E scheme \in SpaceSchemes : ChooseSpaceScheme(scheme)
  \/ \E z_id \in ZoneIds, val \in Values : AddOneOfMany(z_id, val)
  \/ \E alloc \in Allocations : SourceTermInit(CS_FLAG_SYS_SOURCETERM, alloc)

SpecMany == Init /\ [][NextMany]_vars

(***************************************************************************)
(* Properties                                                              *)
(***************************************************************************)

\* cs_source_term_init has returned
Initialized == stage \in {"run", "fault", "assert"}

\* the dispatcher has been called and has returned
Called == stage = "run" /\ last # NoCall

SourcesEnabled == CS_FLAG_SYS_SOURCETERM \subseteq sys_flag

SourceIds == 0 .. (n_source_terms - 1)

\* the definition st_id is defined on the cell c_id
Covers(st_id, c_id) ==
  \/ CS_FLAG_FULL_LOC \subseteq source_terms[st_id].meta
  \/ c_id \in ZoneCells(source_terms[st_id].z_id)

\* what the caller gives to the dispatcher for the cell c_id
CellMesh(c_id) == cs_cell_mesh(c_id, msh_flag)
CellBuilder(c_id) ==
  cs_cell_builder(CellMesh(c_id), HodgeSize(space_scheme, CellMesh(c_id)))
CellDofs(c_id) == 0 .. (NDofs(space_scheme, CellMesh(c_id)) - 1)

\* the dispatcher for the cell c_id with the mask and the buffer given
Dispatch(c_id, mask, buffer) ==
  cs_source_term_compute_cellwise(
    n_source_terms, source_terms, CellMesh(c_id), sys_flag, mask,
    compute_source, CellBuilder(c_id),
    [n_dofs |-> NDofs(space_scheme, CellMesh(c_id)), source |-> buffer])

\* the contribution of the definition st_id alone on a buffer of zeros
Lone(st_id, c_id) ==
  Call(compute_source[st_id], source_terms[st_id], CellMesh(c_id),
       CellBuilder(c_id), ZeroBuf)

RECURSIVE SumOfLone(_, _)
\* element-wise sum of the lone contributions of the definitions 0..n-1
\* defined on the cell c_id
SumOfLone(n, c_id) ==
  IF n = 0 THEN ZeroBuf
  ELSE LET p == SumOfLone(n - 1, c_id)
       IN  IF Covers(n - 1, c_id)
             THEN [i \in BufIds |-> p[i] + Lone(n - 1, c_id)[i]]
             ELSE p

\* C1: when the source terms are enabled, the buffer left by the dispatcher
\* for a cell is the element-wise sum of the contributions that each
\* definition defined on this cell produces alone on a buffer of zeros.
C1_SumOfContributions ==
  (Called /\ SourcesEnabled) =>
    \A i \in CellDofs(last.c_id) :
      source[i] = SumOfLone(n_source_terms, last.c_id)[i]

\* C1: two definitions have been evaluated on a cell and each one alone
\* leaves something in the buffer.
C1_TwoActive ==
  /\ Called /\ SourcesEnabled
  /\ last.calls = <<0, 1>>
  /\ Lone(0, last.c_id) # ZeroBuf
  /\ Lone(1, last.c_id) # ZeroBuf

\* C2: once the initialization is done with a mask, the bit i of the mask of
\* the cell c is set if and only if i is the index of a definition which has
\* the full-domain flag or whose zone holds c; the bits from n_source_terms
\* on are 0.
C2_MaskBits ==
  (Initialized /\ source_mask # NULL_MASK) =>
    \A c \in CellIds : \A i \in 0 .. (MaskBits - 1) :
      (Bit(source_mask[c], i) = 1) <=> (i \in SourceIds /\ Covers(i, c))

\* C2: a mask is built and a cell has the bit of a definition set and the bit
\* of another one unset.
C2_MixedCell ==
  /\ Initialized /\ source_mask # NULL_MASK
  /\ \E c \in CellIds : \E i, j \in SourceIds :
       /\ Bit(source_mask[c], i) = 1
       /\ Bit(source_mask[c], j) = 0

\* C3: with a mask, the dispatcher calls the evaluator of no definition
\* outside the zone of this definition, and leaves a buffer of zeros for a
\* cell which no definition is defined on.
C3_ZoneRespected ==
  (Called /\ source_mask # NULL_MASK) =>
    /\ \A k \in 1 .. Len(last.calls) : Covers(last.calls[k], last.c_id)
    /\ (\A i \in SourceIds : ~Covers(i, last.c_id)) =>
         \A i \in CellDofs(last.c_id) : source[i] = 0

\* C3: with the source terms enabled, the dispatcher has been called with a
\* buffer which was not zero for a cell outside the zone of every definition.
C3_UncoveredCell ==
  /\ Called /\ SourcesEnabled /\ source_mask # NULL_MASK
  /\ n_source_terms > 0
  /\ \A i \in SourceIds : ~Covers(i, last.c_id)
  /\ ~last.zeroed

\* C4: once the initialization is done, there is no mask exactly when every
\* definition has the full-domain flag (so when there is no definition), and
\* a mask has one word for each cell of the mesh.
C4_MaskWhenNeeded ==
  Initialized =>
    /\ (source_mask = NULL_MASK) <=>
         (\A i \in SourceIds :
            CS_FLAG_FULL_LOC \subseteq source_terms[i].meta)
    /\ source_mask # NULL_MASK => DOMAIN source_mask = CellIds

\* C4: the initialization is done with a first definition on a part of the
\* mesh and a last one on the whole mesh.
C4_PartThenFull ==
  /\ Initialized /\ n_source_terms >= 2
  /\ ~(CS_FLAG_FULL_LOC \subseteq source_terms[0].meta)
  /\ CS_FLAG_FULL_LOC \subseteq source_terms[n_source_terms - 1].meta
  /\ source_mask # NULL_MASK

\* a mask whose bits 0..n_source_terms-1 are set for every cell
AllSetMask == [c \in CellIds |-> Pow2(n_source_terms) - 1]

\* C5: a call of the dispatcher without mask calls the evaluators and leaves
\* the buffer that the dispatcher does with a mask whose bits
\* 0..n_source_terms-1 are set (from the same buffer: the entries from n_dofs
\* on are the ones before the call).
C5_NoMaskAsAllSet ==
  (Called /\ source_mask = NULL_MASK) =>
    LET r == Dispatch(last.c_id, AllSetMask, source)
    IN  /\ r.calls = last.calls
        /\ r.source = source
        /\ ~r.fault /\ r.asserts

\* C5: without mask, two evaluators have been called and the buffer is not
\* zero.
C5_TwoWithoutMask ==
  /\ Called /\ SourcesEnabled /\ source_mask = NULL_MASK
  /\ last.calls = <<0, 1>>
  /\ source # ZeroBuf

\* the (scheme, location, kind, quadrature) which an evaluator exists for
Implemented(scheme, d) ==
  CASE scheme = "CDOVB" ->
         IF CS_FLAG_DUAL \subseteq d.meta
           THEN \/ d.type = "BY_VALUE"
                \/ /\ d.type = "BY_ANALYTIC_FUNCTION"
                   /\ d.qtype \in {"BARY", "BARY_SUBDIV", "HIGHER", "HIGHEST"}
           ELSE d.type \in {"BY_VALUE", "BY_ANALYTIC_FUNCTION"}
    [] scheme = "CDOVCB" ->
         /\ ~(CS_FLAG_DUAL \subseteq d.meta)
         /\ d.type \in {"BY_VALUE", "BY_ANALYTIC_FUNCTION"}
    [] scheme = "CDOFB" -> d.type \in {"BY_VALUE", "BY_ANALYTIC_FUNCTION"}
    [] OTHER -> FALSE

\* C6: once the initialization is done without error, compute_source[i] is
\* an evaluator for each i < n_source_terms and NULL for the other entries of
\* the array, and every definition is one which an evaluator exists for: the
\* other ones end in an error.
C6_OneEvaluatorEach ==
  Initialized =>
    \A i \in 0 .. (CS_N_MAX_SOURCE_TERMS - 1) :
      IF i \in SourceIds
        THEN /\ compute_source[i] \in Evaluators
             /\ Implemented(space_scheme, source_terms[i])
        ELSE compute_source[i] = NULL_FUNC

\* C6: the initialization is done for two definitions bound to two
\* evaluators.
C6_TwoBound ==
  /\ Initialized /\ n_source_terms >= 2
  /\ compute_source[0] \in Evaluators
  /\ compute_source[1] \in Evaluators
  /\ compute_source[0] # compute_source[1]

\* C7: with the scheme CDOVCB, the initialization of a list of source terms
\* where a definition is flagged DUAL ends in an error, and no evaluator is
\* bound to this definition.
C7_DualInVcbIsFatal ==
  (space_scheme = "CDOVCB" /\ stage \notin {"setup", "tune"}) =>
    \A i \in SourceIds :
      CS_FLAG_DUAL \subseteq source_terms[i].meta =>
        stage = "error" /\ compute_source[i] = NULL_FUNC

\* C7: with the scheme CDOVCB, the initialization has raised the error for
\* an analytic definition flagged DUAL whose quadrature is the highest one.
C7_ErrorRaised ==
  /\ stage = "error" /\ space_scheme = "CDOVCB"
  /\ err.id = 0
  /\ err.msg = "Invalid type of definition for a source term in CDOVB"
  /\ CS_FLAG_DUAL \subseteq source_terms[0].meta
  /\ source_terms[0].type = "BY_ANALYTIC_FUNCTION"
  /\ source_terms[0].qtype = "HIGHEST"

\* C8 (as stated): two calls in a row of the dispatcher for the same cell, the
\* first one on a buffer of zeros, leave twice what the first call left.
C8_TwiceDoubles ==
  (Called /\ last.prev # NoBuf) =>
    \A i \in BufIds : source[i] = 2 * last.prev[i]

\* C8 (amended): two calls in a row of the dispatcher for the same cell, the
\* first one on a buffer of zeros, leave what the first call left.
C8_TwiceSame ==
  (Called /\ last.prev # NoBuf) => source = last.prev

\* C8: the second of two such calls has called an evaluator and the buffer is
\* not zero.
C8_SecondCall ==
  /\ Called /\ last.prev # NoBuf
  /\ last.calls # << >>
  /\ source # ZeroBuf

\* contents of the entries 0..n_dofs-1 of the buffer before a call
PriorContents ==
  {a.source : a \in Allocations} \cup {source, [i \in BufIds |-> source[i] + 1]}

\* C9: the buffer left by a call of the dispatcher is the one which the
\* dispatcher leaves whatever the entries 0..n_dofs-1 of the buffer hold
\* before the call.
C9_PriorContentIgnored ==
  Called =>
    \A prior \in PriorContents :
      LET buffer == [i \in BufIds |->
                       IF i \in CellDofs(last.c_id) THEN prior[i]
                       ELSE source[i]]
      IN  Dispatch(last.c_id, source_mask, buffer).source = source

\* C9: an evaluator has been called by a call of the dispatcher on a buffer
\* which was not zero.
C9_DirtyBuffer ==
  /\ Called /\ SourcesEnabled
  /\ ~last.zeroed
  /\ last.calls # << >>
  /\ last.prev = NoBuf

\* C10: the bits of the flag of the cell mesh which the evaluator bound to a
\* definition checks are in the flag returned by the initialization, and no
\* call of the dispatcher on a cell mesh built with this flag fails a sanity
\* check of an evaluator.
C10_FlagCoversAsserts ==
  /\ stage # "assert"
  /\ Initialized =>
       \A i \in SourceIds : AssertedFlag(compute_source[i]) \subseteq msh_flag

\* C10: the evaluator of the ten-point quadrature, which checks the
\* quantities of the primal edges, has been called.
C10_Q10o2Called ==
  /\ Called /\ SourcesEnabled
  /\ \E k \in 1 .. Len(last.calls) :
       compute_source[last.calls[k]] = "cs_source_term_dcsd_q10o2_by_analytic"

\* the flag of the mesh which cs_source_term_init returns for the list sts of
\* n definitions under the scheme of the equation
FlagOf(n, sts) ==
  cs_source_term_init(space_scheme, n, sts,
                      [i \in 0 .. (CS_N_MAX_SOURCE_TERMS - 1) |-> NULL_FUNC],
                      sys_flag, NULL_MASK).msh_flag

\* the list of the definition st_id alone
Alone(st_id) == [i \in {0} |-> source_terms[st_id]]

\* the list of the definitions in the reverse order
Reversed == [i \in SourceIds |-> source_terms[n_source_terms - 1 - i]]

\* C11: the flag of the mesh returned by the initialization is the union of
\* the flags returned for each definition of the list taken alone under the
\* same scheme; it is the one returned for the list in the reverse order, and
\* it is empty for an empty list.
C11_FlagIsUnion ==
  Initialized =>
    /\ msh_flag = UNION {FlagOf(1, Alone(i)) : i \in SourceIds}
    /\ msh_flag = FlagOf(n_source_terms, Reversed)
    /\ n_source_terms = 0 => msh_flag = {}

\* C11: the initialization is done for two definitions, each one asking for
\* a bit of the flag which the other one does not ask for.
C11_TwoDifferentFlags ==
  /\ Initialized /\ n_source_terms >= 2
  /\ FlagOf(1, Alone(0)) \ FlagOf(1, Alone(1)) # {}
  /\ FlagOf(1, Alone(1)) \ FlagOf(1, Alone(0)) # {}

\* a cell of volume 1 with four vertices whose dual cells hold a quarter of
\* the cell each
UnitTetrahedron ==
  [c_id |-> 0, flag |-> CS_CDO_LOCAL_PVQ, n_vc |-> 4, vol_c |-> 1,
   wvc |-> [v \in 0 .. 3 |-> WvcDen \div 4]]

\* C12: cs_source_term_dcsd_by_value adds density * wvc[v] * vol_c to the
\* entry v of the buffer for each vertex of the cell and leaves the other
\* entries as they are; when the weights sum to 1 the total added is
\* density * vol_c; for the density 2 on a cell of volume 1 with four weights
\* 0.25 it adds 0.5 for each vertex, 2 in total.  A call of the dispatcher
\* where this evaluator alone is called leaves these values in the buffer.
C12_DualByValue ==
  \A i \in SourceIds :
    (Initialized /\ compute_source[i] = "cs_source_term_dcsd_by_value") =>
      LET density == source_terms[i].input.val
      IN  /\ \A cm \in {CellMesh(c) : c \in CellIds} \cup {UnitTetrahedron} :
               LET out == cs_source_term_dcsd_by_value(source_terms[i], cm,
                                                       CellBuilder(0), source)
                   added == [v \in 0 .. (cm.n_vc - 1) |-> out[v] - source[v]]
               IN  /\ \A v \in BufIds : v >= cm.n_vc => out[v] = source[v]
                   /\ \A v \in 0 .. (cm.n_vc - 1) :
                        WvcDen * added[v] = Unit * density * cm.wvc[v] * cm.vol_c
                   /\ SumTo(cm.wvc, cm.n_vc) = WvcDen =>
                        SumTo(added, cm.n_vc) = Unit * density * cm.vol_c
                   /\ (cm = UnitTetrahedron /\ density = 2) =>
                        /\ \A v \in 0 .. 3 : 2 * added[v] = Unit
                        /\ SumTo(added, 4) = 2 * Unit
          /\ (Called /\ last.calls = <<i>>) =>
               \A v \in BufIds :
                 IF v < CellMesh(last.c_id).n_vc
                   THEN WvcDen * source[v]
                          = Unit * density * CellMesh(last.c_id).wvc[v]
                              * CellMesh(last.c_id).vol_c
                   ELSE v \in CellDofs(last.c_id) => source[v] = 0

\* C12: the dispatcher has called cs_source_term_dcsd_by_value, and no other
\* evaluator, for a definition of density 2 on a buffer which was not zero.
C12_DualByValueCalled ==
  /\ Called /\ SourcesEnabled /\ last.calls = <<0>>
  /\ compute_source[0] = "cs_source_term_dcsd_by_value"
  /\ source_terms[0].input.val = 2
  /\ ~last.zeroed

\* the evaluators of the face-based schemes
FaceBasedEvaluators ==
  {"cs_source_term_fbsd_by_value", "cs_source_term_fbsd_bary_by_analytic"}

\* what a face-based evaluator stores for a definition in the cell cm:
\* value * vol_c, or f(cell center) * vol_c
CellContribution(compute, st_def, cm) ==
  IF compute = "cs_source_term_fbsd_by_value"
    THEN Unit * st_def.input.val * cm.vol_c
    ELSE Unit * func(st_def.input, cm.xc) * cm.vol_c

DualAnalyticEvaluator ==
  [q \in {"BARY", "BARY_SUBDIV", "HIGHER", "HIGHEST"} |->
     CASE q = "BARY" -> "cs_source_term_dcsd_bary_by_analytic"
       [] q = "BARY_SUBDIV" -> "cs_source_term_dcsd_q1o1_by_analytic"
       [] q = "HIGHER" -> "cs_source_term_dcsd_q10o2_by_analytic"
       [] q = "HIGHEST" -> "cs_source_term_dcsd_q5o3_by_analytic"]

\* the result of the initialization when the quadrature of the definition
\* st_id is q
InitWithQuadrature(st_id, q) ==
  cs_source_term_init(space_scheme, n_source_terms,
                      [source_terms EXCEPT ![st_id] = cs_xdef_set_quadrature(@, q)],
                      [i \in 0 .. (CS_N_MAX_SOURCE_TERMS - 1) |-> NULL_FUNC],
                      {}, NULL_MASK)

\* C14: under the scheme CDOVB, once cs_source_term_init has been called, a
\* DUAL analytic definition is bound to the evaluator of its quadrature
\* (barycentric, subdivided, ten points, five points) and any other
\* quadrature has raised an error; for a by-value definition the evaluators
\* bound and the flag returned are the same whatever its quadrature.
C14_QuadratureDispatch ==
  /\ (space_scheme = "CDOVB" /\ stage \notin {"setup", "tune"}) =>
       \A i \in SourceIds :
         (/\ CS_FLAG_DUAL \subseteq source_terms[i].meta
          /\ source_terms[i].type = "BY_ANALYTIC_FUNCTION") =>
           IF source_terms[i].qtype \in DOMAIN DualAnalyticEvaluator
             THEN Initialized =>
                    compute_source[i]
                      = DualAnalyticEvaluator[source_terms[i].qtype]
             ELSE /\ stage = "error"
                  /\ err.id <= i
                  /\ err.id = i =>
                       err.msg = "Invalid type of quadrature for computing a source term with CDOVB schemes"
                  /\ compute_source[i] = NULL_FUNC
  /\ Initialized =>
       \A i \in SourceIds :
         source_terms[i].type = "BY_VALUE" =>
           \A q \in QuadratureTypes :
             LET r == InitWithQuadrature(i, q)
             IN  /\ r.ok
                 /\ r.compute_source = compute_source
                 /\ r.msh_flag = msh_flag

\* C14: under the scheme CDOVB the initialization is done for a by-value
\* definition and a DUAL analytic definition with the ten-point quadrature.
C14_HigherBound ==
  /\ Initialized /\ space_scheme = "CDOVB" /\ n_source_terms >= 2
  /\ source_terms[0].type = "BY_VALUE"
  /\ CS_FLAG_DUAL \subseteq source_terms[1].meta
  /\ source_terms[1].type = "BY_ANALYTIC_FUNCTION"
  /\ source_terms[1].qtype = "HIGHER"
  /\ compute_source[1] = "cs_source_term_dcsd_q10o2_by_analytic"

Threads == CellIds

Idle == [pc |-> "idle", i |-> -1, st_id |-> -1, reg |-> 0]

\* the iterations which each thread may still take when a loop starts
OmpParallelFor(n) == [t \in Threads |-> 0 .. (n - 1)]
OmpSequentialFor(n) == [t \in Threads |-> IF t = 0 THEN 0 .. (n - 1) ELSE {}]

\* a parallel region without work sharing: the thread t runs the iteration i
\* and every other thread still has it to run
OmpHand_replicated(pending, t, i) == [pending EXCEPT ![t] = @ \ {i}]

\* work sharing: the iteration i is handed to the thread t and to no other
OmpHand(pending, t, i) == [u \in Threads |-> pending[u] \ {i}]

\* _set_mask(source_terms[st_id], st_id, mask) starts: the loop it runs
SetMaskLoop(st_id) ==
  LET st == source_terms[st_id]
  IN  IF st.meta \cap CS_FLAG_FULL_LOC # {}
        THEN [full |-> TRUE, pending |-> OmpParallelFor(NCells)]
        ELSE [full |-> FALSE,
              pending |-> OmpSequentialFor(cs_volume_zone_by_id(st.z_id).n_cells)]

\* the cell whose mask the iteration i of the running loop updates
OmpCell(i) ==
  IF mb.phase = "def" /\ ~mb.full
    THEN cs_volume_zone_by_id(source_terms[mb.st_id].z_id).cell_ids[i]
    ELSE i

MaskUnchanged ==
  UNCHANGED <<space_scheme, n_source_terms, source_terms, stage, err,
              compute_source, msh_flag, sys_flag, source_mask, source, last,
              par, eqp>>

\* cs_source_term_init where the build of the mask takes several steps: the
\* call runs up to BFT_MALLOC(mask, n_cells, cs_mask_t), or returns when no
\* mask is needed or an error is raised
SourceTermInitOmp(alloc) ==
  LET r == cs_source_term_init(space_scheme, n_source_terms, source_terms,
                               alloc.compute_source, CS_FLAG_SYS_SOURCETERM,
                               alloc.source_mask)
  IN  IF ~r.ok \/ r.source_mask = NULL_MASK
        THEN SourceTermInit(CS_FLAG_SYS_SOURCETERM, alloc)
        ELSE /\ stage \in {"setup", "tune"}
             /\ stage' = "init"
             /\ compute_source' = r.compute_source
             /\ msh_flag' = r.msh_flag
             /\ sys_flag' = r.sys_flag
             /\ mb' = [phase |-> "zero", st_id |-> -1, full |-> TRUE,
                       cell_mask |-> IF alloc.source_mask = NULL_MASK
                                       THEN [c \in CellIds |-> 0]
                                       ELSE alloc.source_mask,
                       pending |-> OmpParallelFor(NCells),
                       th |-> [t \in Threads |-> Idle],
                       source |-> alloc.source]
             /\ UNCHANGED <<space_scheme, n_source_terms, source_terms, err,
                            source_mask, source, last, par, eqp>>

\* the thread t takes the iteration i of the running loop
OmpTake(t, i) ==
  /\ stage = "init"
  /\ mb.th[t].pc = "idle"
  /\ i \in mb.pending[t]
  /\ mb.full \/ \A j \in mb.pending[t] : i <= j
  /\ mb' = [mb EXCEPT
              !.pending = OmpHand(@, t, i),
              !.th[t] = [pc |-> IF mb.phase = "zero" THEN "store" ELSE "load",
                         i |-> i, st_id |-> mb.st_id, reg |-> 0]]
  /\ MaskUnchanged

\* the thread t reads cell_mask[i]
OmpLoad(t) ==
  /\ stage = "init"
  /\ mb.th[t].pc = "load"
  /\ mb' = [mb EXCEPT !.th[t].pc = "store",
                      !.th[t].reg = mb.cell_mask[OmpCell(mb.th[t].i)]]
  /\ MaskUnchanged

\* the thread t writes cell_mask[i]
OmpStore(t) ==
  /\ stage = "init"
  /\ mb.th[t].pc = "store"
  /\ mb' = [mb EXCEPT
              !.th[t] = Idle,
              !.cell_mask[OmpCell(mb.th[t].i)] =
                 IF mb.phase = "zero" THEN 0
                 ELSE MaskOr(mb.th[t].reg, MaskOf(mb.th[t].st_id))]
  /\ MaskUnchanged

\* the running loop is over and every thread waits at its barrier: the next
\* source term is handled, or cs_source_term_init returns
OmpNext ==
  /\ stage = "init"
  /\ \A t \in Threads : mb.th[t].pc = "idle" /\ mb.pending[t] = {}
  /\ IF mb.st_id + 1 < n_source_terms
       THEN IF source_terms[mb.st_id + 1] = NULL_XDEF
              THEN /\ Fatal("Stop setting an empty cs_xdef_t structure.", -1)
                   /\ UNCHANGED <<source_mask, source, mb>>
              ELSE /\ mb' = [mb EXCEPT
                               !.phase = "def",
                               !.st_id = mb.st_id + 1,
                               !.full = SetMaskLoop(mb.st_id + 1).full,
                               !.pending = SetMaskLoop(mb.st_id + 1).pending]
                   /\ UNCHANGED <<stage, err, source_mask, source>>
       ELSE /\ stage' = "run"
            /\ source_mask' = mb.cell_mask
            /\ source' = mb.source
            /\ mb' = [mb EXCEPT !.phase = "done"]
            /\ err' = err
  /\ UNCHANGED <<space_scheme, n_source_terms, source_terms, compute_source,
                 msh_flag, sys_flag, last, par, eqp>>

(***************************************************************************)
(* Calls of the dispatcher by a team of threads.  The loop on cells of the *)
(* caller gives a cell to each thread, which has its own cell mesh, cell   *)
(* builder and cellwise system.  An evaluator which works in cb->values    *)
(* takes two steps: it fills cb->values, then its last loop folds          *)
(* cb->values into values.  The other evaluators add to values directly.   *)
(***************************************************************************)

\* every thread works with the one cell builder of the thread 0
ThreadBuilder_shared(t) == 0

\* the cell builder of the thread t: its own
ThreadBuilder(t) == t

\* the evaluators whose last loop reads cb->values
ScratchEvaluators ==
  {"cs_source_term_pvsp_by_value", "cs_source_term_pvsp_by_analytic",
   "cs_source_term_vcsp_by_value", "cs_source_term_vcsp_by_analytic",
   "cs_source_term_dcsd_bary_by_analytic",
   "cs_source_term_dcsd_q10o2_by_analytic",
   "cs_source_term_dcsd_q5o3_by_analytic"}

\* the number of entries which the last loop of the evaluator handles
FoldSize(compute, cm) ==
  IF compute \in {"cs_source_term_vcsp_by_value",
                  "cs_source_term_vcsp_by_analytic"}
    THEN cm.n_vc + 1 ELSE cm.n_vc

\* what the evaluator has written in cb->values when its last loop starts, in
\* the unit of the buffer: hdg_eval, contrib, or eval_xgv with the volume of
\* the portion of the cell
Scratch(compute, st_def, cm, cb) ==
  LET out == Call(compute, st_def, cm, cb, ZeroBuf)
  IN  [v \in BufIds |-> IF v < FoldSize(compute, cm) THEN out[v] ELSE 0]

\* the last loop of the evaluator: values[v] += scratch[v], or
\* values[v] = scratch[v] for the barycentric quadrature on dual cells
Fold(compute, cm, values, scratch) ==
  [v \in DOMAIN values |->
     IF v >= FoldSize(compute, cm) THEN values[v]
     ELSE IF compute = "cs_source_term_dcsd_bary_by_analytic" THEN scratch[v]
     ELSE values[v] + scratch[v]]

RECURSIVE NextActive(_, _)
\* the first source term from st_id on whose evaluator the loop of the
\* dispatcher calls for the cell c_id
NextActive(c_id, st_id) ==
  IF st_id >= n_source_terms THEN n_source_terms
  ELSE IF source_mask = NULL_MASK
            \/ MaskAnd(source_mask[c_id], MaskOf(st_id)) # 0 THEN st_id
  ELSE NextActive(c_id, st_id + 1)

\* the thread goes on with the source term st_id, or returns
GoOn(th, c_id, st_id) ==
  LET nxt == NextActive(c_id, st_id)
  IN  [th EXCEPT !.st_id = nxt,
                 !.pc = IF nxt < n_source_terms THEN "eval" ELSE "done"]

SharedUnchanged ==
  UNCHANGED <<space_scheme, n_source_terms, source_terms, stage, err,
              compute_source, msh_flag, sys_flag, source_mask, source, last,
              mb, eqp>>

\* the team starts: the cellwise system of each thread holds what its
\* allocation left, and so does its cell builder
ParStart(alloc) ==
  /\ stage = "run"
  /\ par = NoTeam
  /\ par' = [phase |-> "run",
             th |-> [t \in Threads |->
                       [pc |-> "reset", st_id |-> 0, source |-> source]],
             values |-> [b \in Threads |-> alloc.source],
             overlapped |-> FALSE]
  /\ SharedUnchanged

\* reset of the local contributions and test of the flag of the system
ThreadReset(t) ==
  LET th == par.th[t]
      cm == CellMesh(t)
      zeroed == [th EXCEPT !.source =
                   ResetSource([n_dofs |-> NDofs(space_scheme, cm),
                                source |-> th.source])]
  IN  /\ par # NoTeam
      /\ th.pc = "reset"
      /\ par' = [par EXCEPT !.th[t] =
                   IF SourcesEnabled THEN GoOn(zeroed, t, 0)
                   ELSE [zeroed EXCEPT !.pc = "done"]]
      /\ SharedUnchanged

\* call of the evaluator of the source term st_id, up to its last loop for
\* an evaluator which works in cb->values
ThreadEval(t) ==
  LET th == par.th[t]
      cm == CellMesh(t)
      cb == CellBuilder(t)
      compute == compute_source[th.st_id]
      st_def == source_terms[th.st_id]
  IN  /\ par # NoTeam
      /\ th.pc = "eval"
      /\ par' =
           IF compute = NULL_FUNC THEN [par EXCEPT !.th[t].pc = "fault"]
           ELSE IF ~SanityChecks(compute, st_def, cm)
             THEN [par EXCEPT !.th[t].pc = "assert"]
           ELSE IF compute \in ScratchEvaluators /\ st_def # NULL_XDEF
             THEN [par EXCEPT
                     !.values[ThreadBuilder(t)] = Scratch(compute, st_def, cm, cb),
                     !.th[t].pc = "fold",
                     !.overlapped =
                        @ \/ \E u \in Threads \ {t} : par.th[u].pc = "fold"]
           ELSE [par EXCEPT
                   !.th[t] =
                      GoOn([th EXCEPT !.source =
                              Call(compute, st_def, cm, cb, th.source)],
                           t, th.st_id + 1)]
      /\ SharedUnchanged

\* the last loop of the evaluator
ThreadFold(t) ==
  LET th == par.th[t]
      cm == CellMesh(t)
      compute == compute_source[th.st_id]
  IN  /\ par # NoTeam
      /\ th.pc = "fold"
      /\ par' = [par EXCEPT
                   !.th[t] =
                      GoOn([th EXCEPT !.source =
                              Fold(compute, cm, th.source,
                                   par.values[ThreadBuilder(t)])],
                           t, th.st_id + 1)]
      /\ SharedUnchanged

NextPar ==
  \/ \E scheme \in SpaceSchemes : ChooseSpaceScheme(scheme)
  \/ \E z_id \in ZoneIds, val \in Values :
       cs_equation_add_source_term_by_val(z_id, val)
  \/ \E z_id \in ZoneIds, anai \in AnalyticFuncs :
       cs_equation_add_source_term_by_analytic(z_id, anai)
  \/ \E st_id \in 0 .. (MaxST - 1), qtype \in QuadratureTypes :
       SetQuadrature(st_id, qtype)
  \/ \E alloc \in Allocations : SourceTermInitOmp(alloc)
  \/ \E t \in Threads, i \in CellIds : OmpTake(t, i)
  \/ \E t \in Threads : OmpLoad(t)
  \/ \E t \in Threads : OmpStore(t)
  \/ OmpNext
  \/ \E alloc \in Allocations : ParStart(alloc)
  \/ \E t \in Threads : ThreadReset(t)
  \/ \E t \in Threads : ThreadEval(t)
  \/ \E t \in Threads : ThreadFold(t)

SpecPar == Init /\ [][NextPar]_vars

\* C16: when the dispatcher is called at the same time for different cells,
\* each call with its own cell mesh, cell builder and cellwise system, the
\* buffer of each call which has returned is the one which the call gives
\* when it runs alone, whatever the order of the steps of the calls.
C16_ConcurrentCallsAsSequential ==
  par # NoTeam =>
    \A t \in Threads :
      par.th[t].pc = "done" =>
        par.th[t].source = Dispatch(t, source_mask, source).source

\* C16: every call has returned, an evaluator working in its cell builder
\* had filled it while the evaluator of another call was about to read its
\* own, and two calls have left different contributions.
C16_OverlappedCalls ==
  /\ par # NoTeam
  /\ par.overlapped
  /\ \A t \in Threads : par.th[t].pc = "done"
  /\ \E t, u \in Threads :
       /\ par.th[t].source # par.th[u].source
       /\ par.th[t].source # ZeroBuf

\* the threads which have taken an iteration and not yet done its store
Busy == {t \in Threads : mb.th[t].pc # "idle"}

\* C17: while cs_source_term_init builds the mask, two threads never handle
\* the mask of the same cell at the same time, the threads at work handle
\* the same source term, a source term restricted to a zone is handled by
\* one thread, and the mask which is returned is the one of the build by
\* one thread.
C17_NoSharedMaskWord ==
  /\ stage = "init" =>
       /\ \A t, u \in Busy : t # u => OmpCell(mb.th[t].i) # OmpCell(mb.th[u].i)
       /\ \A t \in Busy : mb.th[t].st_id = mb.st_id
       /\ (mb.phase = "def" /\ ~mb.full) => Busy \subseteq {0}
  /\ (mb # NoBuild /\ mb.phase = "done") =>
       source_mask = MaskLoop(source_terms, n_source_terms, NCells, TRUE).cell_mask

\* C17: two threads are in the middle of the update of the mask of two
\* cells for the second source term, after a source term restricted to a
\* zone, and the memory of the mask was not zero when allocated.
C17_TwoThreadsAtWork ==
  /\ stage = "init"
  /\ mb.phase = "def" /\ mb.full /\ mb.st_id = 1
  /\ CS_FLAG_FULL_LOC \cap source_terms[0].meta = {}
  /\ \E t, u \in Busy : t # u /\ mb.th[t].pc = "store" /\ mb.th[u].pc = "store"
  /\ \E c \in CellIds : mb.cell_mask[c] # 0

RECURSIVE Replay(_, _, _, _)
\* the buffer left by the evaluators bound to the source terms calls[1..n],
\* called in this order for the cell c_id on the buffer given
Replay(calls, n, c_id, buffer) ==
  IF n = 0 THEN buffer
  ELSE Call(compute_source[calls[n]], source_terms[calls[n]], CellMesh(c_id),
            CellBuilder(c_id), Replay(calls, n - 1, c_id, buffer))

\* C18: a call of the dispatcher leaves the definitions, the evaluators bound
\* and the mask as cs_source_term_init left them, raises no error, and the
\* buffer it leaves is the one left by the evaluators bound at the
\* initialization to the source terms it has handled, called in turn on the
\* buffer reset.
C18_DispatcherFrame ==
  [][stage = "run" =>
       /\ n_source_terms' = n_source_terms
       /\ source_terms' = source_terms
       /\ compute_source' = compute_source
       /\ source_mask' = source_mask
       /\ msh_flag' = msh_flag /\ sys_flag' = sys_flag
       /\ stage' = "run" /\ err' = err
       /\ source' =
            Replay(last'.calls, Len(last'.calls), last'.c_id,
                   ResetSource([n_dofs |-> NDofs(space_scheme, CellMesh(last'.c_id)),
                                source |-> source]))]_vars

\* C18: the dispatcher has been called twice at least, and its last call has
\* run two different evaluators for a cell with a mask.
C18_TwoEvaluatorsRun ==
  /\ Called
  /\ last.prev # NoBuf
  /\ source_mask # NULL_MASK
  /\ Len(last.calls) = 2
  /\ compute_source[last.calls[1]] # compute_source[last.calls[2]]
  /\ source # ZeroBuf

(***************************************************************************)
(* A caller of the dispatcher which gives it a list with NULL entries:     *)
(* once the source terms are initialized, and before it calls the          *)
(* dispatcher, it sets entries of the list to NULL.                        *)
(***************************************************************************)
NullEntry(st_id) ==
  /\ stage = "run"
  /\ last = NoCall
  /\ st_id < n_source_terms
  /\ source_terms[st_id] # NULL_XDEF
  /\ source_terms' = [source_terms EXCEPT ![st_id] = NULL_XDEF]
  /\ UNCHANGED <<space_scheme, n_source_terms, stage, err, compute_source,
                 msh_flag, sys_flag, source_mask, source, last, mb, par, eqp>>

NextNull ==
  \/ \E scheme \in SpaceSchemes : ChooseSpaceScheme(scheme)
  \/ \E z_id \in ZoneIds, val \in Values :
       cs_equation_add_source_term_by_val(z_id, val)
  \/ \E z_id \in ZoneIds, anai \in AnalyticFuncs :
       cs_equation_add_source_term_by_analytic(z_id, anai)
  \/ \E st_id \in 0 .. (MaxST - 1), qtype \in QuadratureTypes :
       SetQuadrature(st_id, qtype)
  \/ \E alloc \in Allocations : SourceTermInit(CS_FLAG_SYS_SOURCETERM, alloc)
  \/ \E st_id \in 0 .. (MaxST - 1) : NullEntry(st_id)
  \/ \E c_id \in CellIds : ComputeCellwise(c_id)

SpecNull == Init /\ [][NextNull]_vars

\* the mask of the cell c where the bits of the NULL entries of the list
\* are cleared
MaskWithoutNull ==
  [c \in CellIds |->
     SumTo([i \in SourceIds |->
              IF source_terms[i] # NULL_XDEF
                   /\ (source_mask = NULL_MASK
                         \/ MaskAnd(source_mask[c], MaskOf(i)) # 0)
                THEN MaskOf(i) ELSE 0], n_source_terms)]

\* C19: every evaluator called with a NULL definition leaves the buffer as
\* it is and fails no sanity check; a call of the dispatcher with a list
\* holding NULL entries raises no error and leaves the buffer which the
\* dispatcher leaves when the NULL entries are masked for every cell.
C19_NullDefinitionSkipped ==
  Initialized =>
    /\ \A compute \in Evaluators, c \in CellIds :
         /\ Call(compute, NULL_XDEF, CellMesh(c), CellBuilder(c), source) = source
         /\ SanityChecks(compute, NULL_XDEF, CellMesh(c))
    /\ stage = "run"
    /\ last # NoCall =>
         /\ err = NoErr
         /\ Dispatch(last.c_id, MaskWithoutNull, source).source = source

\* C19: the dispatcher has called an evaluator with a NULL definition, and
\* another one with a definition which has left a contribution.
C19_NullEntryCalled ==
  /\ Called
  /\ \E i, j \in SourceIds :
       /\ source_terms[i] = NULL_XDEF /\ source_terms[j] # NULL_XDEF
       /\ \E k, l \in DOMAIN last.calls : last.calls[k] = i /\ last.calls[l] = j
       /\ Lone(j, last.c_id) # ZeroBuf
  /\ source # ZeroBuf

(***************************************************************************)
(* A caller of cs_source_term_init which gives it a list with NULL         *)
(* entries.  The loop of the classification reads st_def->meta without a   *)
(* test of st_def: the behaviour of this read through a NULL pointer is    *)
(* undefined.  It traps, or it gives whatever the memory holds.            *)
(***************************************************************************)

\* the caller sets an entry of the list to NULL before the initialization
SetNullEntry(st_id) ==
  /\ stage \in {"setup", "tune"}
  /\ st_id < n_source_terms
  /\ source_terms[st_id] # NULL_XDEF
  /\ source_terms' = [source_terms EXCEPT ![st_id] = NULL_XDEF]
  /\ stage' = "tune"
  /\ UNCHANGED <<space_scheme, n_source_terms, err, compute_source,
                 msh_flag, sys_flag, source_mask, source, last, mb, par, eqp>>

\* what a read through a NULL pointer which does not trap may give: a
\* definition by value with no flag, or with the flags of a density at dual
\* cells, on the whole domain or not
GarbageReads ==
  {cs_xdef_volume_create("BY_VALUE", 1, meta, [val |-> 0]) :
     meta \in {{}, CS_FLAG_DUAL \cup CS_FLAG_CELL,
               CS_FLAG_DUAL \cup CS_FLAG_CELL \cup CS_FLAG_FULL_LOC}}

\* what the reads of the definitions give: ub for the NULL entries
ReadThrough(sts, ub) ==
  [i \in DOMAIN sts |-> IF sts[i] = NULL_XDEF THEN ub ELSE sts[i]]

\* cs_source_term_init where a read through a NULL entry traps
\* (ub = NULL_XDEF) or gives ub
SourceTermInitUB(alloc, ub) ==
  SourceTermInitReading(ReadThrough(source_terms, ub), CS_FLAG_SYS_SOURCETERM,
                        alloc)

NextNullInit ==
  \/ \E scheme \in SpaceSchemes : ChooseSpaceScheme(scheme)
  \/ \E z_id \in ZoneIds, val \in Values :
       cs_equation_add_source_term_by_val(z_id, val)
  \/ \E z_id \in ZoneIds, anai \in AnalyticFuncs :
       cs_equation_add_source_term_by_analytic(z_id, anai)
  \/ \E st_id \in 0 .. (MaxST - 1) : SetNullEntry(st_id)
  \/ \E alloc \in Allocations, ub \in {NULL_XDEF} \cup GarbageReads :
       SourceTermInitUB(alloc, ub)

SpecNullInit == Init /\ [][NextNullInit]_vars

NullIds == {i \in SourceIds : source_terms[i] = NULL_XDEF}

\* C20: once cs_source_term_init has been called with a list holding a NULL
\* entry, the error of an empty definition has been raised for the first
\* NULL entry, no evaluator is bound to a NULL entry or to an entry after
\* the first NULL one, and no mask is returned.
C20_NullDefinitionReported ==
  (stage \notin {"setup", "tune"} /\ NullIds # {}) =>
    /\ stage = "error"
    /\ err.msg = "Stop setting an empty cs_xdef_t structure."
    /\ \A i \in NullIds : \A j \in SourceIds :
         j >= i => compute_source[j] \notin Evaluators
    /\ source_mask = NULL_MASK

\* C20: cs_source_term_init has been called with a list whose second entry
\* is NULL, after a definition restricted to a zone.
C20_NullEntryInitialized ==
  /\ stage \notin {"setup", "tune"}
  /\ n_source_terms = 2
  /\ NullIds = {1}
  /\ CS_FLAG_FULL_LOC \cap source_terms[0].meta = {}

(***************************************************************************)
(* The report of a fatal error: bft_error(__FILE__, __LINE__, 0, format,   *)
(* arguments).  The text reported is the format where each argument is     *)
(* written in its place.                                                   *)
(***************************************************************************)

\* the arguments which follow the format in the call of bft_error
\* cs_source_term_init makes with this format
ErrorArguments(format) ==
  IF format = "Limitation to %d source terms has been reached!"
    THEN <<CS_N_MAX_SOURCE_TERMS>>
    ELSE << >>

\* the formats of the errors of cs_source_term_init for a definition which
\* no evaluator is implemented for
UnsupportedFormats ==
  {"Invalid type of quadrature for computing a source term with CDOVB schemes",
   "Invalid type of definition for a source term in CDOVB",
   "Invalid space scheme for setting the source term."}

\* C21: the report of an error of cs_source_term_init for a definition which
\* no evaluator is implemented for has two arguments, the name of the
\* equation then the index of this definition.
C21_ErrorIdentifiesDefinition ==
  (stage = "error" /\ err.msg \in UnsupportedFormats) =>
    /\ Len(ErrorArguments(err.msg)) = 2
    /\ ErrorArguments(err.msg)[2] = err.id

\* C21: cs_source_term_init has raised an error for the second definition
\* of the list, an analytic one whose quadrature is not implemented.
C21_SecondDefinitionRefused ==
  /\ stage = "error" /\ n_source_terms = 2
  /\ err.msg \in UnsupportedFormats
  /\ err.id = 1
  /\ source_terms[1].type = "BY_ANALYTIC_FUNCTION"
  /\ compute_source[0] \in Evaluators

(***************************************************************************)
(* An equation with one analytic source term on the whole domain, given    *)
(* by a polynomial, whose quadrature is set before the initialization.     *)
(***************************************************************************)
AddPolynomial(anai) ==
  AddSourceTermUpTo(1, "BY_ANALYTIC_FUNCTION", 0, anai, "BARY_SUBDIV")

NextQuad ==
  \/ \E anai \in Polynomials : AddPolynomial(anai)
  \/ \E qtype \in QuadratureTypes : SetQuadrature(0, qtype)
  \/ \E alloc \in Allocations : SourceTermInit(CS_FLAG_SYS_SOURCETERM, alloc)
  \/ \E c_id \in CellIds : ComputeCellwise(c_id)

SpecQuad == Init /\ [][NextQuad]_vars

\* the degree of a polynomial
Degree(anai) ==
  IF anai.hi # << >>
    THEN CHOOSE d \in 2 .. 9 :
           /\ \E m \in DOMAIN anai.hi :
                anai.hi[m].i + anai.hi[m].j + anai.hi[m].k = d
           /\ \A m \in DOMAIN anai.hi :
                anai.hi[m].i + anai.hi[m].j + anai.hi[m].k <= d
    ELSE IF anai.ax = 0 /\ anai.ay = 0 /\ anai.az = 0 THEN 0 ELSE 1

\* the sub-tetrahedra attached to a vertex fill its portion of the cell
GeometryConsistent(cm) ==
  \A v \in 0 .. (cm.n_vc - 1) :
    SumTo([i \in 0 .. (NF2E(cm) - 1) |->
             IF HasVertex(cm, i, v) THEN SubTetVol(cm, FaceOf(cm, i), i) ELSE 0],
          NF2E(cm))
      * WvcDen = cm.wvc[v] * cm.vol_c

DualQuadratures ==
  {"cs_source_term_dcsd_bary_by_analytic",
   "cs_source_term_dcsd_q1o1_by_analytic",
   "cs_source_term_dcsd_q10o2_by_analytic",
   "cs_source_term_dcsd_q5o3_by_analytic"}

\* C22: for an affine function and a cell whose geometry is consistent, the
\* four evaluators of an analytic density at dual cells leave the same
\* values when called on a buffer of zeros, which are the ones left by the
\* dispatcher whatever the evaluator bound.
C22_QuadraturesAgreeOnAffine ==
  (Called /\ n_source_terms = 1 /\ compute_source[0] \in DualQuadratures) =>
    LET cm == CellMesh(last.c_id)
        cb == CellBuilder(last.c_id)
        st == source_terms[0]
    IN  (Degree(st.input) <= 1 /\ GeometryConsistent(cm)) =>
          \A compute \in DualQuadratures :
            \A v \in 0 .. (cm.n_vc - 1) :
              Call(compute, st, cm, cb, ZeroBuf)[v] = source[v]

\* C22: the dispatcher has called the ten-point quadrature for a function
\* which is affine and not constant, and has left values which differ
\* between vertices.
C22_AffineByTenPoints ==
  /\ Called /\ n_source_terms = 1
  /\ compute_source[0] = "cs_source_term_dcsd_q10o2_by_analytic"
  /\ Degree(source_terms[0].input) = 1
  /\ GeometryConsistent(CellMesh(last.c_id))
  /\ source[0] # 0 /\ source[0] # source[1]

\* the integral of x^n between lo and hi
Mono1(lo, hi, n) == (Power(hi, n + 1) - Power(lo, n + 1)) \div (n + 1)

\* the integral of x^i * y^j * z^k on the box between the points p and q
MonoBox(p, q, i, j, k) ==
  LET lo(d) == IF p[d] < q[d] THEN p[d] ELSE q[d]
      hi(d) == IF p[d] < q[d] THEN q[d] ELSE p[d]
  IN  Mono1(lo(1), hi(1), i) * Mono1(lo(2), hi(2), j) * Mono1(lo(3), hi(3), k)

\* the integral of the polynomial on the box between the points p and q
ExactIntegral(anai, p, q) ==
  anai.a0 * MonoBox(p, q, 0, 0, 0) + anai.ax * MonoBox(p, q, 1, 0, 0)
    + anai.ay * MonoBox(p, q, 0, 1, 0) + anai.az * MonoBox(p, q, 0, 0, 1)
    + SumTo([m \in 0 .. (Len(anai.hi) - 1) |->
               anai.hi[m + 1].c
                 * MonoBox(p, q, anai.hi[m + 1].i, anai.hi[m + 1].j,
                           anai.hi[m + 1].k)], Len(anai.hi))

\* C23: the ten-point quadrature leaves for each vertex the integral of a
\* polynomial of degree 2 at most on the portion of the cell of this vertex
\* (for a cube, the box between the vertex and the cell center), and the
\* five-point quadrature does for a polynomial of degree 3 at most.
C23_QuadraturesExact ==
  (Called /\ n_source_terms = 1) =>
    LET cm == CellMesh(last.c_id)
        anai == source_terms[0].input
    IN  (\/ /\ compute_source[0] = "cs_source_term_dcsd_q10o2_by_analytic"
            /\ Degree(anai) <= 2
         \/ /\ compute_source[0] = "cs_source_term_dcsd_q5o3_by_analytic"
            /\ Degree(anai) <= 3) =>
          \A v \in 0 .. (cm.n_vc - 1) :
            source[v] = Unit * ExactIntegral(anai, cm.xv[v], cm.xc)

\* C23: the dispatcher has called the ten-point quadrature for a polynomial
\* of degree 2, for the cell which is not at the origin.
C23_QuadraticByTenPoints ==
  /\ Called /\ n_source_terms = 1
  /\ compute_source[0] = "cs_source_term_dcsd_q10o2_by_analytic"
  /\ Degree(source_terms[0].input) = 2
  /\ last.c_id = 1
  /\ source[0] # source[7]

(***************************************************************************)
(* The list of source terms of an equation                                 *)
(***************************************************************************)
\* the call has added a definition of this type on this zone at the end of
\* the list
Appended(type, z_id) ==
  /\ n_source_terms' = n_source_terms + 1
  /\ DOMAIN source_terms' = 0 .. n_source_terms
  /\ \A i \in 0 .. (n_source_terms - 1) : source_terms'[i] = source_terms[i]
  /\ source_terms'[n_source_terms].type = type
  /\ source_terms'[n_source_terms].z_id = z_id
  /\ (CS_FLAG_FULL_LOC \subseteq source_terms'[n_source_terms].meta)
       <=> (z_id = 0)

\* C24: each call of one of the four functions adding a source term which
\* returns has added one definition at the index n_source_terms, has left
\* the definitions before at their index, has increased n_source_terms
\* by 1, and the definition added holds the full location flag if and only
\* if the id of its zone is 0.
C24_AddAppendsOne ==
  [][\A z_id \in ZoneIds :
       /\ \A val \in Values :
            (cs_equation_add_source_term_by_val(z_id, val) /\ stage' = stage)
              => Appended("BY_VALUE", z_id)
       /\ \A anai \in AnalyticFuncs :
            (cs_equation_add_source_term_by_analytic(z_id, anai)
               /\ stage' = stage)
              => Appended("BY_ANALYTIC_FUNCTION", z_id)
       /\ (cs_equation_add_source_term_by_dof_func(
             z_id, CS_FLAG_PRIMAL \cup CS_FLAG_CELL) /\ stage' = stage)
            => Appended("BY_DOF_FUNCTION", z_id)
       /\ (cs_equation_add_source_term_by_array(
             z_id, CS_FLAG_PRIMAL \cup CS_FLAG_CELL) /\ stage' = stage)
            => Appended("BY_ARRAY", z_id)]_vars

\* C24: two definitions of different types were added, the first one on a
\* part of the domain and the second one on the whole domain.
C24_SecondAdded ==
  /\ stage = "setup" /\ n_source_terms = 2
  /\ source_terms[0].type = "BY_ARRAY" /\ source_terms[0].z_id = 1
  /\ ~(CS_FLAG_FULL_LOC \subseteq source_terms[0].meta)
  /\ source_terms[1].type = "BY_VALUE" /\ source_terms[1].z_id = 0
  /\ CS_FLAG_FULL_LOC \subseteq source_terms[1].meta

(***************************************************************************)
(* The settings of an equation: lumping, lock and last stage               *)
(***************************************************************************)
ErrLocked == "Equation is not modifiable anymore."

\* the lock is not tested
cs_equation_param_last_stage_without_lock(p, n, sts) ==
  IF p.do_lumping
    THEN [ok |-> TRUE,
          source_terms |->
            [i \in 0 .. (n - 1) |-> cs_xdef_set_quadrature(sts[i], "BARY")]]
    ELSE [ok |-> TRUE, source_terms |-> sts]

\* the lock is tested first; with lumping, the barycentric quadrature is
\* set on every source term
cs_equation_param_last_stage(p, n, sts) ==
  IF p.flag \cap CS_EQUATION_LOCKED # {}
    THEN [ok |-> FALSE, source_terms |-> sts]
    ELSE IF p.do_lumping
      THEN [ok |-> TRUE,
            source_terms |->
              [i \in 0 .. (n - 1) |-> cs_xdef_set_quadrature(sts[i], "BARY")]]
      ELSE [ok |-> TRUE, source_terms |-> sts]

LastStage ==
  LET r == cs_equation_param_last_stage(eqp, n_source_terms, source_terms)
  IN  /\ stage \in {"setup", "tune"}
      /\ source_terms' = r.source_terms
      /\ IF r.ok THEN UNCHANGED <<stage, err>> ELSE Fatal(ErrLocked, -1)
      /\ UNCHANGED <<space_scheme, n_source_terms, compute_source, msh_flag,
                     sys_flag, source_mask, source, last, mb, par, eqp>>

\* cs_equation_set_param(eqp, CS_EQKEY_DO_LUMPING, keyval)
SetLumping(keyval) ==
  /\ stage \in {"setup", "tune"}
  /\ IF eqp.flag \cap CS_EQUATION_LOCKED # {}
       THEN /\ Fatal(ErrLocked, -1)
            /\ eqp' = eqp
       ELSE /\ eqp' = [eqp EXCEPT !.do_lumping = keyval \in {"true", "1"}]
            /\ UNCHANGED <<stage, err>>
  /\ UNCHANGED <<space_scheme, n_source_terms, source_terms, compute_source,
                 msh_flag, sys_flag, source_mask, source, last, mb, par>>

\* the settings are locked once the equation is set up
LockSettings ==
  /\ stage \in {"setup", "tune"}
  /\ eqp.flag \cap CS_EQUATION_LOCKED = {}
  /\ eqp' = [eqp EXCEPT !.flag = @ \cup CS_EQUATION_LOCKED]
  /\ UNCHANGED <<space_scheme, n_source_terms, source_terms, stage, err,
                 compute_source, msh_flag, sys_flag, source_mask, source,
                 last, mb, par>>

(***************************************************************************)
(* The enforcement of the value of DoFs                                    *)
(***************************************************************************)
ErrTwoTypes == "Two types of enforcement are requested (by DoFs and by cells)."
ErrScheme == "Invalid space scheme. This should be a vertex-based one."
ErrNoValue == "No enforcement value."

\* a selection which is not empty is emptied and its arrays are freed
ResetSelections(p) ==
  LET dofs == p.n_enforced_dofs > 0
      cells == p.n_enforced_cells > 0
  IN  [p EXCEPT
         !.n_enforced_dofs = 0,
         !.enforced_dof_ids = IF dofs THEN NULL_ARRAY ELSE @,
         !.enforced_dof_values = IF dofs THEN NULL_ARRAY ELSE @,
         !.n_enforced_cells = 0,
         !.enforced_cell_ids = IF cells THEN NULL_ARRAY ELSE @,
         !.enforced_cell_values = IF cells THEN NULL_ARRAY ELSE @]

\* the type of the enforcement of this kind with these values
EnforcementType(kind, elt_values) ==
  IF elt_values = NULL_ARRAY
    THEN kind \cup CS_EQUATION_ENFORCE_BY_REFERENCE_VALUE
    ELSE kind

\* the selection of DoFs is set from the first n_elts entries
SetEnforcedDofs(p, n_elts, elt_ids, ref_value, elt_values) ==
  [p EXCEPT
     !.flag = @ \cup CS_EQUATION_FORCE_VALUES,
     !.n_enforced_dofs = n_elts,
     !.enforcement_type =
        EnforcementType(CS_EQUATION_ENFORCE_BY_DOFS, elt_values),
     !.enforced_dof_ids = SubSeq(elt_ids, 1, n_elts),
     !.enforcement_ref_value =
        IF elt_values = NULL_ARRAY THEN ref_value ELSE @,
     !.enforced_dof_values =
        IF elt_values = NULL_ARRAY THEN @ ELSE SubSeq(elt_values, 1, n_elts)]

\* the selection of cells is set from the first n_elts entries
SetEnforcedCells(p, n_elts, elt_ids, ref_value, elt_values) ==
  [p EXCEPT
     !.n_enforced_cells = n_elts,
     !.enforcement_type =
        EnforcementType(CS_EQUATION_ENFORCE_BY_CELLS, elt_values),
     !.flag = @ \cup CS_EQUATION_FORCE_VALUES,
     !.enforced_cell_ids = SubSeq(elt_ids, 1, n_elts),
     !.enforcement_ref_value =
        IF elt_values = NULL_ARRAY THEN ref_value ELSE @,
     !.enforced_cell_values =
        IF elt_values = NULL_ARRAY THEN @ ELSE SubSeq(elt_values, 1, n_elts)]

\* the enforcement by cells is not tested
cs_equation_enforce_vertex_dofs_untested(p, scheme, n_elts, elt_ids, ref_value, elt_values) ==
  IF n_elts < 1 THEN [ok |-> TRUE, eqp |-> p, msg |-> ""]
  ELSE IF scheme \notin {"CDOVB", "CDOVCB"}
    THEN [ok |-> FALSE, eqp |-> p, msg |-> ErrScheme]
  ELSE IF ref_value = NULL_ARRAY /\ elt_values = NULL_ARRAY
    THEN [ok |-> FALSE, eqp |-> p, msg |-> ErrNoValue]
  ELSE [ok |-> TRUE, msg |-> "",
        eqp |-> SetEnforcedDofs(ResetSelections(p), n_elts, elt_ids,
                                ref_value, elt_values)]

cs_equation_enforce_vertex_dofs(p, scheme, n_elts, elt_ids, ref_value, elt_values) ==
  IF n_elts < 1 THEN [ok |-> TRUE, eqp |-> p, msg |-> ""]
  ELSE IF p.enforcement_type \cap CS_EQUATION_ENFORCE_BY_CELLS # {}
    THEN [ok |-> FALSE, eqp |-> p, msg |-> ErrTwoTypes]
  ELSE IF scheme \notin {"CDOVB", "CDOVCB"}
    THEN [ok |-> FALSE, eqp |-> p, msg |-> ErrScheme]
  ELSE IF ref_value = NULL_ARRAY /\ elt_values = NULL_ARRAY
    THEN [ok |-> FALSE, eqp |-> p, msg |-> ErrNoValue]
  ELSE [ok |-> TRUE, msg |-> "",
        eqp |-> SetEnforcedDofs(ResetSelections(p), n_elts, elt_ids,
                                ref_value, elt_values)]

\* the same for a selection of cells, whatever the space scheme
cs_equation_enforce_by_cell_selection(p, n_elts, elt_ids, ref_value, elt_values) ==
  IF n_elts < 1 THEN [ok |-> TRUE, eqp |-> p, msg |-> ""]
  ELSE IF p.enforcement_type \cap CS_EQUATION_ENFORCE_BY_DOFS # {}
    THEN [ok |-> FALSE, eqp |-> p, msg |-> ErrTwoTypes]
  ELSE IF ref_value = NULL_ARRAY /\ elt_values = NULL_ARRAY
    THEN [ok |-> FALSE, eqp |-> p, msg |-> ErrNoValue]
  ELSE [ok |-> TRUE, msg |-> "",
        eqp |-> SetEnforcedCells(ResetSelections(p), n_elts, elt_ids,
                                 ref_value, elt_values)]

\* the arguments of a call: a number of elements, a list of ids which holds
\* as many ids at least, a reference value or none, a list which holds as
\* many values at least or none
EnforceCounts == {0 - 1, 0, 1, 2}
EnforceIds == {<<0>>, <<1, 0>>}
EnforceRefValues == {NULL_ARRAY, <<5>>}
EnforceEltValues == {NULL_ARRAY, <<3, 4>>}

EnforceArgs ==
  {a \in [n_elts : EnforceCounts, elt_ids : EnforceIds,
          ref_value : EnforceRefValues, elt_values : EnforceEltValues] :
     /\ Len(a.elt_ids) >= a.n_elts
     /\ a.elt_values = NULL_ARRAY \/ Len(a.elt_values) >= a.n_elts}

\* a call which returns leaves the members set, a call which fails stops
\* the program
Enforced(r) ==
  /\ stage \in {"setup", "tune"}
  /\ IF r.ok THEN eqp' = r.eqp /\ UNCHANGED <<stage, err>>
             ELSE eqp' = eqp /\ Fatal(r.msg, -1)
  /\ UNCHANGED <<space_scheme, n_source_terms, source_terms, compute_source,
                 msh_flag, sys_flag, source_mask, source, last, mb, par>>

EnforceVertexDofs(a) ==
  Enforced(cs_equation_enforce_vertex_dofs(
             eqp, space_scheme, a.n_elts, a.elt_ids, a.ref_value, a.elt_values))

EnforceByCellSelection(a) ==
  Enforced(cs_equation_enforce_by_cell_selection(
             eqp, a.n_elts, a.elt_ids, a.ref_value, a.elt_values))

NextParam ==
  \/ \E scheme \in SpaceSchemes : ChooseSpaceScheme(scheme)
  \/ \E val \in Values : cs_equation_add_source_term_by_val(0, val)
  \/ \E anai \in AnalyticFuncs : cs_equation_add_source_term_by_analytic(0, anai)
  \/ cs_equation_add_source_term_by_dof_func(0, CS_FLAG_PRIMAL \cup CS_FLAG_CELL)
  \/ \E keyval \in {"true", "false"} : SetLumping(keyval)
  \/ LockSettings
  \/ LastStage
  \/ \E a \in EnforceArgs : EnforceVertexDofs(a)
  \/ \E a \in EnforceArgs : EnforceByCellSelection(a)

SpecParam == Init /\ [][NextParam]_vars

\* the definitions but for their quadrature
SameButQuadrature(a, b) ==
  [a EXCEPT !.qtype = "NONE"] = [b EXCEPT !.qtype = "NONE"]

\* C25: a source term given by an analytic function or by a function of
\* DoFs is created with the quadrature at the barycenter of the
\* subdivisions; the last stage of the settings fails when the equation is
\* locked, else sets the quadrature at the barycenter on every source term
\* when the lumping is requested, else changes no source term.
C25_LumpingSetsBarycenter ==
  [][/\ \A anai \in AnalyticFuncs :
          (cs_equation_add_source_term_by_analytic(0, anai) /\ stage' = stage)
            => source_terms'[n_source_terms].qtype = "BARY_SUBDIV"
     /\ (cs_equation_add_source_term_by_dof_func(
           0, CS_FLAG_PRIMAL \cup CS_FLAG_CELL) /\ stage' = stage)
          => source_terms'[n_source_terms].qtype = "BARY_SUBDIV"
     /\ LastStage =>
          IF eqp.flag \cap CS_EQUATION_LOCKED # {}
            THEN stage' = "error" /\ source_terms' = source_terms
            ELSE /\ stage' = stage
                 /\ IF eqp.do_lumping
                      THEN \A i \in 0 .. (n_source_terms - 1) :
                             /\ source_terms'[i].qtype = "BARY"
                             /\ SameButQuadrature(source_terms'[i],
                                                  source_terms[i])
                      ELSE source_terms' = source_terms]_vars

\* C25: the lumping was requested and the last stage has set the quadrature
\* at the barycenter on a source term given by a function of DoFs and on one
\* given by an analytic function.
C25_Lumped ==
  /\ stage # "error" /\ eqp.do_lumping /\ n_source_terms = 2
  /\ source_terms[0].type = "BY_DOF_FUNCTION" /\ source_terms[0].qtype = "BARY"
  /\ source_terms[1].type = "BY_ANALYTIC_FUNCTION"
  /\ source_terms[1].qtype = "BARY"

\* at most one kind of enforcement is set and at most one selection holds
\* elements
OneKind(p) ==
  /\ ~(CS_EQUATION_ENFORCE_BY_DOFS \cup CS_EQUATION_ENFORCE_BY_CELLS
         \subseteq p.enforcement_type)
  /\ p.n_enforced_dofs = 0 \/ p.n_enforced_cells = 0

\* the kind of enforcement which is set
KindSet(p) ==
  p.enforcement_type
    \cap (CS_EQUATION_ENFORCE_BY_DOFS \cup CS_EQUATION_ENFORCE_BY_CELLS)

\* after a call: nothing has changed without element; the call has failed
\* when the other kind is set; the selection is the one of a call which
\* has returned
EnforceOutcome(a, kind, other) ==
  IF a.n_elts < 1 THEN UNCHANGED vars
  ELSE IF KindSet(eqp) = other THEN stage' = "error" /\ eqp' = eqp
  ELSE stage' = stage =>
         LET n == IF kind = CS_EQUATION_ENFORCE_BY_DOFS
                    THEN eqp'.n_enforced_dofs ELSE eqp'.n_enforced_cells
             ids == IF kind = CS_EQUATION_ENFORCE_BY_DOFS
                      THEN eqp'.enforced_dof_ids ELSE eqp'.enforced_cell_ids
             values == IF kind = CS_EQUATION_ENFORCE_BY_DOFS
                         THEN eqp'.enforced_dof_values
                         ELSE eqp'.enforced_cell_values
         IN  /\ KindSet(eqp') = kind
             /\ n = a.n_elts
             /\ ids = SubSeq(a.elt_ids, 1, a.n_elts)
             /\ IF a.elt_values = NULL_ARRAY
                  THEN /\ values = NULL_ARRAY
                       /\ eqp'.enforcement_ref_value = a.ref_value
                       /\ CS_EQUATION_ENFORCE_BY_REFERENCE_VALUE
                            \subseteq eqp'.enforcement_type
                  ELSE /\ values = SubSeq(a.elt_values, 1, a.n_elts)
                       /\ eqp'.enforcement_type = kind

\* C30: the type of enforcement never holds both the bit of the DoFs and
\* the bit of the cells and one at most of the two selections holds
\* elements; a call with one element at least fails when the other kind is
\* set; a call which returns leaves its own selection in place of the one
\* before; a call without element changes nothing.
C30_OneKindOfEnforcement ==
  [][/\ OneKind(eqp) /\ OneKind(eqp')
     /\ \A a \in EnforceArgs :
          /\ EnforceVertexDofs(a) =>
               EnforceOutcome(a, CS_EQUATION_ENFORCE_BY_DOFS,
                              CS_EQUATION_ENFORCE_BY_CELLS)
          /\ EnforceByCellSelection(a) =>
               EnforceOutcome(a, CS_EQUATION_ENFORCE_BY_CELLS,
                              CS_EQUATION_ENFORCE_BY_DOFS)]_vars

\* C30: a selection of two DoFs with their values is set and a call for a
\* selection of cells has failed.
C30_OtherKindRefused ==
  /\ stage = "error" /\ err.msg = ErrTwoTypes
  /\ eqp.n_enforced_dofs = 2 /\ eqp.enforced_dof_ids = <<1, 0>>
  /\ eqp.enforced_dof_values = <<3, 4>>
  /\ eqp.n_enforced_cells = 0

(***************************************************************************)
(* The reduction of one definition whose flag is any location (the primal  *)
(* or the dual mesh, with an entity or none) with any of the other bits.   *)
(***************************************************************************)
KeptBits ==
  CS_FLAG_SCALAR \cup CS_FLAG_VECTOR \cup CS_FLAG_TENSOR \cup CS_FLAG_BORDER
    \cup CS_FLAG_BY_CELL \cup CS_FLAG_FULL_LOC

Supports == {CS_FLAG_PRIMAL, CS_FLAG_DUAL}

Entities == {{}, CS_FLAG_VERTEX, {"EDGE"}, {"FACE"}, CS_FLAG_CELL}

MetaFlags ==
  {s \cup e \cup k : s \in Supports, e \in Entities, k \in SUBSET KeptBits}

InitReduction ==
  /\ space_scheme = "CDOVB"
  /\ n_source_terms = 1
  /\ \E meta \in MetaFlags, val \in Values :
       source_terms =
         [i \in {0} |->
            cs_xdef_volume_create("BY_VALUE",
                                  IF CS_FLAG_FULL_LOC \subseteq meta THEN 0 ELSE 1,
                                  meta, [val |-> val])]
  /\ stage = "setup"
  /\ err = NoErr
  /\ compute_source = [i \in 0 .. (CS_N_MAX_SOURCE_TERMS - 1) |-> NULL_FUNC]
  /\ msh_flag = {}
  /\ sys_flag = {}
  /\ source_mask = NULL_MASK
  /\ source = ZeroBuf
  /\ last = NoCall
  /\ mb = NoBuild
  /\ par = NoTeam
  /\ eqp = cs_equation_create_param

NextReduction ==
  \E flag \in {CS_FLAG_PRIMAL, CS_FLAG_DUAL} : SetReduction(0, flag)

SpecReduction == InitReduction /\ [][NextReduction]_vars

\* the location held by a flag
Location(meta) == meta \ KeptBits

\* the call has changed the location and nothing else
Reduced(location) ==
  /\ stage' # "error"
  /\ Location(source_terms'[0].meta) = location
  /\ source_terms'[0].meta \cap KeptBits = source_terms[0].meta \cap KeptBits
  /\ [source_terms'[0] EXCEPT !.meta = {}] = [source_terms[0] EXCEPT !.meta = {}]

\* the reduction to the dual mesh then to the primal mesh
ThereAndBack(st) ==
  cs_source_term_set_reduction(
    cs_source_term_set_reduction(st, CS_FLAG_DUAL).st, CS_FLAG_PRIMAL)

\* C26: a call for a flag of which the definition holds a bit changes
\* nothing; else the vertices of the primal mesh become the cells of the
\* dual mesh when the dual mesh is requested, the cells of the dual mesh
\* become the vertices of the primal mesh when the primal mesh is
\* requested, with the six other bits as they were, and the call fails for
\* any other location; from the vertices of the primal mesh, the request of
\* the dual mesh then of the primal mesh gives back the flag.
C26_ReductionSwapsLocation ==
  [][/\ \A flag \in {CS_FLAG_PRIMAL, CS_FLAG_DUAL} :
          SetReduction(0, flag) =>
            LET meta == source_terms[0].meta
            IN  IF meta \cap flag # {}
                  THEN stage' # "error" /\ source_terms' = source_terms
                ELSE IF flag = CS_FLAG_DUAL
                          /\ Location(meta) = CS_FLAG_PRIMAL \cup CS_FLAG_VERTEX
                  THEN Reduced(CS_FLAG_DUAL \cup CS_FLAG_CELL)
                ELSE IF flag = CS_FLAG_PRIMAL
                          /\ Location(meta) = CS_FLAG_DUAL \cup CS_FLAG_CELL
                  THEN Reduced(CS_FLAG_PRIMAL \cup CS_FLAG_VERTEX)
                ELSE stage' = "error"
     /\ Location(source_terms[0].meta) = CS_FLAG_PRIMAL \cup CS_FLAG_VERTEX
          => /\ ThereAndBack(source_terms[0]).ok
             /\ ThereAndBack(source_terms[0]).st = source_terms[0]]_vars

\* C26: a definition on the whole domain, with the bit of the vectors, is
\* reduced on the cells of the dual mesh.
C26_ReducedToDual ==
  /\ stage = "tune"
  /\ source_terms[0].meta =
       CS_FLAG_DUAL \cup CS_FLAG_CELL \cup CS_FLAG_FULL_LOC \cup CS_FLAG_VECTOR

(***************************************************************************)
(* The definitions which the initialization refuses                        *)
(***************************************************************************)
UnboundTypes == {"BY_ARRAY", "BY_DOF_FUNCTION"}

\* C27: the initialization raises a fatal error as soon as the list holds a
\* definition by array or by function of DoFs, whatever the space scheme and
\* the location of the definitions.
C27_ArrayAndDofFuncRefused ==
  [][\A on \in BOOLEAN, alloc \in Allocations :
       (/\ SourceTermInit(IF on THEN CS_FLAG_SYS_SOURCETERM ELSE {}, alloc)
        /\ \E i \in 0 .. (n_source_terms - 1) :
             source_terms[i].type \in UnboundTypes)
         => /\ stage' = "error"
            /\ \A i \in SourceIds : compute_source'[i] \notin Evaluators
                 \/ source_terms[i].type \notin UnboundTypes]_vars

\* C27: the list holds a definition by value then a definition by array,
\* which the initialization has refused.
C27_StoredThenRefused ==
  /\ stage = "error" /\ n_source_terms = 2
  /\ source_terms[0].type = "BY_VALUE"
  /\ source_terms[1].type = "BY_ARRAY"
  /\ err.msg = "Invalid type of definition for a source term in CDOVB"
  /\ err.id = 1

(***************************************************************************)
(* The default flag of a scheme and the initialization                     *)
(***************************************************************************)
\* every definition of the list is a definition by value which holds the
\* default flag of the space scheme of the equation
ByValueWithDefaultFlag ==
  LET dflt == cs_source_term_set_default_flag(space_scheme)
  IN  /\ dflt.ok
      /\ n_source_terms > 0
      /\ \A i \in SourceIds :
           /\ source_terms[i].type = "BY_VALUE"
           /\ source_terms[i].meta \ CS_FLAG_FULL_LOC = dflt.meta_flag

C28_DefaultFlagAcceptedInSwitch ==
  [][\A on \in BOOLEAN, alloc \in Allocations :
       (/\ SourceTermInit(IF on THEN CS_FLAG_SYS_SOURCETERM ELSE {}, alloc)
        /\ ByValueWithDefaultFlag
        /\ space_scheme \in {"CDOVB", "CDOVCB", "CDOFB"})
         => /\ stage' = "run"
            /\ \A i \in SourceIds : compute_source'[i] \in Evaluators]_vars

C29_NoSourceTermFlag ==
  [][\A c_id \in CellIds :
       (ComputeCellwise(c_id) /\ sys_flag \cap CS_FLAG_SYS_SOURCETERM = {})
         => LET n_dofs == NDofs(space_scheme, cs_cell_mesh(c_id, msh_flag))
            IN  /\ \A i \in BufIds :
                     source'[i] = IF i < n_dofs THEN 0 ELSE source[i]
                /\ last'.calls = << >>
                /\ stage' = "run"]_vars

\* C29: the dispatcher was called without the flag on a buffer which held
\* values, for an equation with two definitions, evaluators and a mask.
C29_CalledWithoutFlag ==
  /\ Called /\ sys_flag \cap CS_FLAG_SYS_SOURCETERM = {}
  /\ n_source_terms = 2 /\ source_mask # NULL_MASK
  /\ \A i \in SourceIds : compute_source[i] \in Evaluators
  /\ Covers(0, last.c_id)
  /\ ~last.zeroed /\ last.calls = << >> /\ source[0] = 0

====
